---------------------------- MODULE Spec2Model ----------------------------
(***************************************************************************)
(* ReasoningBank memory subsystem of chantilly-adk:                        *)
(*   - MemoryTestTimeScaling.sequentialScaling / parallelScaling /         *)
(*     _scoreTrajectory            (src/services/memoryTestTimeScaling.js) *)
(*   - MemoryConsolidation.consolidate and its three passes                *)
(*                                   (src/services/memoryConsolidation.js) *)
(* The memory repository (models/reasoningMemory) is not part of the       *)
(* sources at hand; its operations are modelled from the specification of  *)
(* the MemoryRepository interface.                                         *)
(***************************************************************************)
EXTENDS Integers, Sequences, FiniteSets, TLC

VARIABLES
    \* ---- sequentialScaling (one invocation) ----
    seqEnabled,      \* config.MATTS_SEQUENTIAL_ENABLED
    maxIterations,   \* argument maxIterations
    hasReflect,      \* whether a reflectFunction was passed
    seqPc,           \* position of the invocation
    iteration,       \* loop variable `iteration`
    currentTask,     \* local `currentTask`
    seqMemories,     \* local `memories` of the current iteration
    seqResult,       \* local `result` of the current iteration
    bestResult,      \* local `bestResult`
    bestScore,       \* local `bestScore` (tenths)
    seqReturn,       \* value the invocation resolved with
    seqCalls,        \* observation: number of calls made, per callee
    seqTrace,        \* observation: the results execute returned, in order
    seqRefineAll,    \* observation: every reflect so far said shouldRefine
    seqTasks,        \* observation: the task each execute call received, in order
    seqReflections,  \* observation: how each reflect call ended, in order
    seqError         \* observation: the step whose exception left the invocation

seqVars == <<seqEnabled, maxIterations, hasReflect, seqPc, iteration,
             currentTask, seqMemories, seqResult, bestResult, bestScore,
             seqReturn, seqCalls, seqTrace, seqRefineAll, seqTasks,
             seqReflections, seqError>>

VARIABLES
    \* ---- parallelScaling (one invocation) ----
    parEnabled,      \* config.MATTS_PARALLEL_ENABLED
    numVariants,     \* argument numVariants
    parPc,           \* position of the invocation
    parMemories,     \* local `memories` (the retrieval's answer)
    memoryChunks,    \* local `memoryChunks`, variant index -> list of ids
    trajectories,    \* settled trajectory promises, variant index -> record
    bestTrajectory,  \* local `bestTrajectory`
    parReturn,       \* value the invocation resolved with
    parExecLog,      \* observation: execute call -> the list it received and its outcome
    parStatsLog,     \* observation: the updateMemoryStats calls issued
    parCalls,        \* observation: number of embedQuery / retrieveMemories calls
    parError,        \* observation: the step whose exception left the invocation
    parFirst         \* observation: index of the variant whose promise settled first

parVars == <<parEnabled, numVariants, parPc, parMemories, memoryChunks,
             trajectories, bestTrajectory, parReturn, parExecLog,
             parStatsLog, parCalls, parError, parFirst>>

VARIABLES
    \* ---- the memory repository ----
    store,           \* id -> stored MemoryRecord (status "absent": no such document)
    \* ---- consolidate() (invocations one after the other) ----
    consPc,          \* position of the invocation
    consRun,         \* number of the invocation (1, 2, ...)
    stats,           \* local `stats` of consolidate()
    prevStats,       \* the stats the previous invocation returned
    memories,        \* local `memories` of the running pass (the scan)
    worklist,        \* local toPrune / duplicatePairs / staleMemories
    cursor,          \* position of the running for-of loop in worklist
    mergedCount,     \* local `mergedCount` of the merge pass
    comparisons,     \* observation: _cosineSimilarity calls of the merge scan
    consLog,         \* observation: the repository writes issued, in order
    runLimit,        \* environment: how many times the scheduler invokes consolidate()
    faultsLeft       \* environment: repository failures still to come

VARIABLES
    \* ---- another task using the repository while maintenance runs ----
    clientPc,        \* position of its parallelScaling invocation
    clientIds,       \* ids of the memories its retrieval returned
    clientCalls      \* parallelScaling invocations it started so far

VARIABLES
    \* ---- one call of _scoreTrajectory ----
    scoreArg,        \* argument `result`
    scoreOut,        \* the score returned, in tenths (Absent before the call)
    \* ---- one call of _cosineSimilarity ----
    cosArgs,         \* arguments <<vec1, vec2>>
    cosOut           \* the similarity returned (NoSim before the call)

fnVars == <<scoreArg, scoreOut, cosArgs, cosOut>>

VARIABLES
    \* ---- one call of extractFromRejection / extractFromBuildFailure ----
    extOp,           \* which of the two operations is called
    extStatus,       \* buildResult.status ("n/a" for a rejection)
    extPc,           \* position of the invocation
    extMemories,     \* local `memories`: what _extractMemories returned
    extCursor,       \* position of the for-of loop in `memories`
    extOutcomes,     \* observation: how each _storeMemory call ended, in order
    extAdds,         \* observation: the addMemory calls issued, in order
    extReturn        \* value the invocation resolved with

extVars == <<extOp, extStatus, extPc, extMemories, extCursor, extOutcomes,
             extAdds, extReturn>>

VARIABLES
    \* ---- one call of retrieveForCodeGeneration ----
    rcgTopK,         \* argument topK
    rcgPc,           \* position of the invocation
    rcgMemories,     \* local `memories`: what retrieveMemories returned
    rcgError,        \* observation: the step whose exception was caught
    rcgReturn        \* value the invocation resolved with

rcgVars == <<rcgTopK, rcgPc, rcgMemories, rcgError, rcgReturn>>

svcVars == <<fnVars, extVars, rcgVars>>

storeVars == <<store>>

clientVars == <<clientPc, clientIds, clientCalls>>

consVars == <<consPc, consRun, stats, prevStats, memories, worklist, cursor,
              mergedCount, comparisons, consLog, runLimit, faultsLeft>>

vars == <<seqVars, parVars, storeVars, consVars, clientVars, svcVars>>

notSeqVars == <<parVars, storeVars, consVars, clientVars, svcVars>>
notParVars == <<seqVars, storeVars, consVars, clientVars, svcVars>>
notSvcVars == <<seqVars, parVars, storeVars, consVars, clientVars>>
notFnVars == <<notSvcVars, extVars, rcgVars>>
notExtVars == <<notSvcVars, fnVars, rcgVars>>
notRcgVars == <<notSvcVars, fnVars, extVars>>

-----------------------------------------------------------------------------
(* Values                                                                  *)

\* an absent (undefined) numeric field of a loose JS object
Absent == -1

\* bound: largest maxIterations argument explored
MaxIter == 3

\* bound: largest numVariants argument explored
MaxVariants == 3

\* bound: longest list of memories a retrieval hands back
MaxMem == 4

\* bound: number of documents of the memory collection
MaxRecords == 3

\* bound: number of consecutive consolidate() invocations
MaxRuns == 2

\* bound: number of repository calls that fail during the run
MaxFaults == 1

\* bound: parallelScaling invocations of the other task
MaxClientCalls == 1

\* The executor's result objects.  isNull marks a null result; the other
\* fields are the ones _scoreTrajectory reads: steps, executionTime (ms),
\* outputKeys = Object.keys(outputData).length, htmlLen = htmlReport.length.
Result(n, ok, st, et, ok2, hl) ==
    [isNull |-> n, success |-> ok, steps |-> st, executionTime |-> et,
     outputKeys |-> ok2, htmlLen |-> hl]

NullResult == Result(TRUE, FALSE, Absent, Absent, Absent, Absent)

\* representative executor results: null, a failure, and successes scoring
\* 0.5, 0.6 (two different ones), 0.7, 0.9 and 1.0
ResultPool ==
    { NullResult,
      Result(FALSE, FALSE, Absent, 50, Absent, Absent),
      Result(FALSE, TRUE, Absent, 6000, Absent, Absent),
      Result(FALSE, TRUE, Absent, 3000, Absent, Absent),
      Result(FALSE, TRUE, Absent, Absent, 6, Absent),
      Result(FALSE, TRUE, 5, Absent, Absent, Absent),
      Result(FALSE, TRUE, 5, 3000, 6, Absent),
      Result(FALSE, TRUE, 5, 3000, 6, 2000) }

-----------------------------------------------------------------------------
(* _scoreTrajectory, in tenths                                             *)

\* JS truthiness of a numeric field: absent (undefined) and 0 are falsy
Truthy(x) == x # Absent /\ x # 0

Min(a, b) == IF a <= b THEN a ELSE b

\* variant: a failed result is scored like a successful one
ScoreIgnoringSuccess(result) ==
    IF result.isNull THEN 0
    ELSE Min(5
             + (IF Truthy(result.steps) /\ result.steps < 10 THEN 2 ELSE 0)
             + (IF Truthy(result.executionTime) /\ result.executionTime < 5000
                THEN 1 ELSE 0), 10)

\* `if (!result || !result.success) return 0;` then 0.5 plus the bonuses,
\* capped at 1.0
ScoreTrajectory(result) ==
    IF result.isNull \/ ~result.success THEN 0
    ELSE Min(5
             + (IF Truthy(result.steps) /\ result.steps < 10 THEN 2 ELSE 0)
             + (IF Truthy(result.executionTime) /\ result.executionTime < 5000
                THEN 1 ELSE 0)
             + (IF result.outputKeys # Absent /\ result.outputKeys > 5
                THEN 1 ELSE 0)
             + (IF Truthy(result.htmlLen) /\ result.htmlLen > 1000
                THEN 1 ELSE 0), 10)

-----------------------------------------------------------------------------
(* sequentialScaling                                                       *)

TaskFields == {"description", "parameters"}

InitialTask == [f \in TaskFields |-> 0]

\* reflection.refinedTask: a patch overriding some fields (possibly none)
PatchPool == { [f \in {} |-> 0],
               [f \in {"description"} |-> 1],
               [f \in {"parameters"} |-> 1] }

\* { ...currentTask, ...reflection.refinedTask }
MergeTask(task, patch) ==
    [f \in TaskFields |-> IF f \in DOMAIN patch THEN patch[f] ELSE task[f]]

\* lists of memory ids a retrieval may hand back
MemListPool == { <<>>, <<1>>, <<2, 1>> }

NoCalls == [embed |-> 0, retrieve |-> 0, execute |-> 0, reflect |-> 0]

Called(calls, f) == [calls EXCEPT ![f] = @ + 1]

\* the state of an invocation given its inputs
SeqAtStart(enabled, maxIter, reflect) ==
    /\ seqEnabled = enabled
    /\ maxIterations = maxIter
    /\ hasReflect = reflect
    /\ seqPc = "start"
    /\ iteration = 0
    /\ currentTask = InitialTask
    /\ seqMemories = <<>>
    /\ seqResult = NullResult
    /\ bestResult = NullResult
    /\ bestScore = 0
    /\ seqReturn = NullResult
    /\ seqCalls = NoCalls
    /\ seqTrace = <<>>
    /\ seqRefineAll = TRUE
    /\ seqTasks = <<>>
    /\ seqReflections = <<>>
    /\ seqError = "none"

InitSeq ==
    \E enabled \in BOOLEAN, maxIter \in 0..MaxIter, reflect \in BOOLEAN :
        SeqAtStart(enabled, maxIter, reflect)

\* no sequentialScaling invocation is part of the run
NoSeq == SeqAtStart(FALSE, 0, FALSE)

\* variant: the loop bound off by one
LoopContinuesInclusive(i, maxIter) == i <= maxIter

\* the loop condition of `for (let iteration = 0; iteration < maxIterations; ...)`
LoopContinues(i, maxIter) == i < maxIter

\* feature disabled: return await executeFunction(task, [])
SeqFallback ==
    /\ seqPc = "start" /\ ~seqEnabled
    /\ seqCalls' = Called(seqCalls, "execute")
    /\ seqTasks' = Append(seqTasks, currentTask)
    /\ \/ /\ seqPc' = "raised"
          /\ seqError' = "execute"
          /\ UNCHANGED <<seqReturn, seqTrace>>
       \/ \E r \in ResultPool :
            /\ seqPc' = "returned"
            /\ seqReturn' = r
            /\ seqTrace' = Append(seqTrace, r)
            /\ UNCHANGED seqError
    /\ UNCHANGED <<seqEnabled, maxIterations, hasReflect, iteration,
                   currentTask, seqMemories, seqResult, bestResult,
                   bestScore, seqRefineAll, seqReflections>>
    /\ UNCHANGED notSeqVars

\* await embeddingService.embedQuery(...): resolves, or rejects and the
\* rejection leaves sequentialScaling
SeqEmbed ==
    /\ seqPc = "start" /\ seqEnabled
    /\ seqCalls' = Called(seqCalls, "embed")
    /\ \/ seqPc' = "loop" /\ UNCHANGED seqError
       \/ seqPc' = "raised" /\ seqError' = "embed"
    /\ UNCHANGED <<seqEnabled, maxIterations, hasReflect, iteration,
                   currentTask, seqMemories, seqResult, bestResult,
                   bestScore, seqReturn, seqTrace, seqRefineAll, seqTasks,
                   seqReflections>>
    /\ UNCHANGED notSeqVars

\* loop head, condition true: retrieveMemories(queryEmbedding, 5, ...)
SeqRetrieve ==
    /\ seqPc = "loop" /\ LoopContinues(iteration, maxIterations)
    /\ seqCalls' = Called(seqCalls, "retrieve")
    /\ \/ /\ seqPc' = "raised"
          /\ seqError' = "retrieve"
          /\ UNCHANGED seqMemories
       \/ \E ms \in MemListPool :
            /\ seqPc' = "exec"
            /\ seqMemories' = ms
            /\ UNCHANGED seqError
    /\ UNCHANGED <<seqEnabled, maxIterations, hasReflect, iteration,
                   currentTask, seqResult, bestResult, bestScore, seqReturn,
                   seqTrace, seqRefineAll, seqTasks, seqReflections>>
    /\ UNCHANGED notSeqVars

\* loop head, condition false: fall out of the loop and return bestResult
SeqLoopExit ==
    /\ seqPc = "loop" /\ ~LoopContinues(iteration, maxIterations)
    /\ seqPc' = "returned"
    /\ seqReturn' = bestResult
    /\ UNCHANGED <<seqEnabled, maxIterations, hasReflect, iteration,
                   currentTask, seqMemories, seqResult, bestResult,
                   bestScore, seqCalls, seqTrace, seqRefineAll, seqTasks,
                   seqReflections, seqError>>
    /\ UNCHANGED notSeqVars

\* variant: an equal score replaces the best result
TrackBestLastWins(best, bScore, r) ==
    IF ScoreTrajectory(r) >= bScore THEN <<r, ScoreTrajectory(r)>>
    ELSE <<best, bScore>>

\* `if (score > bestScore) { bestResult = result; bestScore = score; }`
TrackBest(best, bScore, r) ==
    IF ScoreTrajectory(r) > bScore THEN <<r, ScoreTrajectory(r)>>
    ELSE <<best, bScore>>

\* variant: the early stop asks for a score above 1.0
StopsEarlyAboveOne(r) == r.success /\ ScoreTrajectory(r) > 10

\* `if (result.success && score > 0.9)`
StopsEarly(r) == r.success /\ ScoreTrajectory(r) > 9

\* variant: without a reflector the loop is left after any iteration
StopsWithoutReflectorAlways(r) == TRUE

\* the else branch of `if (reflectFunction)`: `if (result.success) break;`
StopsWithoutReflector(r) == r.success

\* executeFunction(currentTask, memories) and the rest of the iteration up
\* to the reflect call
SeqExecute ==
    /\ seqPc = "exec"
    /\ seqCalls' = Called(seqCalls, "execute")
    /\ seqTasks' = Append(seqTasks, currentTask)
    /\ \/ \* the executor throws: no handler, the exception propagates
          /\ seqPc' = "raised"
          /\ seqError' = "execute"
          /\ UNCHANGED <<seqResult, bestResult, bestScore, seqReturn,
                         seqTrace, iteration>>
       \/ \* null result: `result.success` raises a TypeError
          /\ NullResult \in ResultPool
          /\ seqPc' = "raised"
          /\ seqError' = "nullResult"
          /\ seqResult' = NullResult
          /\ seqTrace' = Append(seqTrace, NullResult)
          /\ UNCHANGED <<bestResult, bestScore, seqReturn, iteration>>
       \/ \E r \in ResultPool \ {NullResult} :
            LET nb == TrackBest(bestResult, bestScore, r) IN
            /\ seqResult' = r
            /\ seqTrace' = Append(seqTrace, r)
            /\ bestResult' = nb[1]
            /\ bestScore' = nb[2]
            /\ UNCHANGED seqError
            /\ IF StopsEarly(r)
               THEN /\ seqPc' = "returned"
                    /\ seqReturn' = nb[1]
                    /\ UNCHANGED iteration
               ELSE IF hasReflect
               THEN /\ seqPc' = "reflect"
                    /\ UNCHANGED <<seqReturn, iteration>>
               ELSE IF StopsWithoutReflector(r)
               THEN /\ seqPc' = "returned"
                    /\ seqReturn' = nb[1]
                    /\ UNCHANGED iteration
               ELSE /\ seqPc' = "loop"
                    /\ iteration' = iteration + 1
                    /\ UNCHANGED seqReturn
    /\ UNCHANGED <<seqEnabled, maxIterations, hasReflect, currentTask,
                   seqMemories, seqRefineAll, seqReflections>>
    /\ UNCHANGED notSeqVars

\* how a reflect call ends: it throws, it returns nothing or a reflection
\* whose shouldRefine is falsy, or it returns one with shouldRefine true
ReflectOutcomes == {"threw", "stop", "refine"}

\* variant: only an explicit refusal leaves the loop, an exception does not
ReflectBreaksOnStopOnly(how) == how = "stop"

\* `if (!reflection || !reflection.shouldRefine) break;` and the `break` of
\* the catch block
ReflectBreaks(how) == how \in {"threw", "stop"}

\* reflectFunction(currentTask, result, memories) inside try/catch
SeqReflect ==
    /\ seqPc = "reflect"
    /\ seqCalls' = Called(seqCalls, "reflect")
    /\ \E how \in ReflectOutcomes, patch \in PatchPool :
         /\ how # "refine" => DOMAIN patch = {}
         /\ seqReflections' = Append(seqReflections, how)
         /\ IF ReflectBreaks(how)
            THEN /\ seqPc' = "returned"
                 /\ seqReturn' = bestResult
                 /\ seqRefineAll' = FALSE
                 /\ UNCHANGED <<currentTask, iteration>>
            ELSE /\ currentTask' = MergeTask(currentTask, patch)
                 /\ iteration' = iteration + 1
                 /\ seqPc' = "loop"
                 /\ UNCHANGED <<seqReturn, seqRefineAll>>
    /\ UNCHANGED <<seqEnabled, maxIterations, hasReflect, seqMemories,
                   seqResult, bestResult, bestScore, seqTrace, seqTasks,
                   seqError>>
    /\ UNCHANGED notSeqVars

NextSeq ==
    \/ SeqFallback
    \/ SeqEmbed
    \/ SeqRetrieve
    \/ SeqLoopExit
    \/ SeqExecute
    \/ SeqReflect

-----------------------------------------------------------------------------
(* parallelScaling                                                         *)

\* the retrieval's answer: null, or a list of memories (ids 1..k in order)
NullList == <<0>>

IdList(k) == [i \in 1..k |-> i]

\* key of the fallback execute call in parExecLog (variants use their index)
SingleCall == 0 - 1

\* the element of a trajectory array that did not settle to a wrapper yet
NoTrajectory ==
    [index |-> -1, result |-> NullResult, success |-> FALSE, score |-> 0,
     memoriesUsed |-> <<>>]

\* one executeFunction call: the memory list passed, whether it threw, and
\* the value it resolved with otherwise
Exec(mems, threw, r) == [memories |-> mems, threw |-> threw, result |-> r]

NoParCalls == [embed |-> 0, retrieve |-> 0]

\* the argument null, as distinct from every number explored
NullVariants == 0 - 2

\* ToNumber of the numVariants argument, as applied by `numVariants * 3`,
\* `{ length: numVariants }` and `index % numVariants`: null counts as 0
ToNumber(n) == IF n = NullVariants THEN 0 ELSE n

ParAtStart(enabled, n) ==
    /\ parEnabled = enabled
    /\ numVariants = n
    /\ parPc = "start"
    /\ parMemories = <<>>
    /\ memoryChunks = <<>>
    /\ trajectories = <<>>
    /\ bestTrajectory = NoTrajectory
    /\ parReturn = NullResult
    /\ parExecLog = <<>>
    /\ parStatsLog = <<>>
    /\ parCalls = NoParCalls
    /\ parError = "none"
    /\ parFirst = Absent

InitPar ==
    \E enabled \in BOOLEAN, n \in {NullVariants} \cup (-1..MaxVariants) :
        ParAtStart(enabled, n)

\* no parallelScaling invocation is part of the run
NoPar == ParAtStart(FALSE, 0)

\* variant: the chunk index is computed from the 1-based position
ChunkOneBased(mems, n, i) ==
    LET pos == { p \in 1..Len(mems) : p % n = i }
        RECURSIVE Take(_)
        Take(k) == IF k > Len(mems) THEN <<>>
                   ELSE IF k \in pos THEN <<mems[k]>> \o Take(k + 1)
                   ELSE Take(k + 1)
    IN Take(1)

\* Array.from({ length: numVariants }, () => []) followed by
\* memories.forEach((memory, index) => memoryChunks[index % numVariants].push(memory)):
\* chunk i (0-based) holds the memories at 0-based positions i, i+N, i+2N, ...
\* The chunks are kept as a function on 0..N-1.
Chunk(mems, n, i) ==
    LET pos == { p \in 1..Len(mems) : (p - 1) % n = i }
        RECURSIVE Take(_)
        Take(k) == IF k > Len(mems) THEN <<>>
                   ELSE IF k \in pos THEN <<mems[k]>> \o Take(k + 1)
                   ELSE Take(k + 1)
    IN Take(1)

RoundRobin(mems, n) == [i \in 0..(n - 1) |-> Chunk(mems, n, i)]

\* variant: the single execution is handed what the retrieval returned
FallbackMemoriesAsRetrieved(mems) == mems

\* the second argument of the single execution: the literal []
FallbackMemories(mems) == <<>>

\* feature disabled: return await executeFunction(task, [])
ParDisabled ==
    /\ parPc = "start" /\ ~parEnabled
    /\ \/ /\ parPc' = "raised"
          /\ parError' = "execute"
          /\ parExecLog' = (SingleCall :> Exec(FallbackMemories(parMemories), TRUE, NullResult))
                           @@ parExecLog
          /\ UNCHANGED parReturn
       \/ \E r \in ResultPool :
            /\ parPc' = "returned"
            /\ parReturn' = r
            /\ parExecLog' = (SingleCall :> Exec(FallbackMemories(parMemories), FALSE, r))
                             @@ parExecLog
            /\ UNCHANGED parError
    /\ UNCHANGED <<parEnabled, numVariants, parMemories, memoryChunks,
                   trajectories, bestTrajectory, parStatsLog, parCalls>>
    /\ UNCHANGED parFirst
    /\ UNCHANGED notParVars

\* variant: the embedding failure is swallowed and retrieval goes ahead
EmbedRejectedContinues == "retrieve"

\* embedQuery is awaited outside any try block: a rejection leaves
\* parallelScaling at once
EmbedRejected == "raised"

\* await embeddingService.embedQuery(...)
ParEmbed ==
    /\ parPc = "start" /\ parEnabled
    /\ parCalls' = [parCalls EXCEPT !.embed = @ + 1]
    /\ \/ parPc' = "retrieve" /\ UNCHANGED parError
       \/ parPc' = EmbedRejected /\ parError' = "embed"
    /\ UNCHANGED <<parEnabled, numVariants, parMemories, memoryChunks,
                   trajectories, bestTrajectory, parReturn, parExecLog,
                   parStatsLog>>
    /\ UNCHANGED parFirst
    /\ UNCHANGED notParVars

\* await this.memoryModel.retrieveMemories(queryEmbedding, numVariants * 3, ...)
\* and the split into chunks.  With numVariants <= 0 the chunk array is
\* empty and the first push dereferences undefined: a TypeError leaves the
\* function.
ParRetrieve ==
    /\ parPc = "retrieve"
    /\ parCalls' = [parCalls EXCEPT !.retrieve = @ + 1]
    /\ \/ /\ parPc' = "raised"
          /\ parError' = "retrieve"
          /\ UNCHANGED <<parMemories, memoryChunks>>
       \/ \E ms \in {NullList, <<>>} :
            /\ parMemories' = ms
            /\ parPc' = "single"
            /\ UNCHANGED <<memoryChunks, parError>>
       \/ \E k \in 1..MaxMem :
            /\ ToNumber(numVariants) >= 1 => k <= ToNumber(numVariants) * 3
            /\ parMemories' = IdList(k)
            /\ IF ToNumber(numVariants) >= 1
               THEN /\ memoryChunks' = RoundRobin(IdList(k), ToNumber(numVariants))
                    /\ parPc' = "running"
                    /\ UNCHANGED parError
               ELSE /\ parPc' = "raised"
                    /\ parError' = "distribute"
                    /\ UNCHANGED memoryChunks
    /\ UNCHANGED <<parEnabled, numVariants, trajectories, bestTrajectory,
                   parReturn, parExecLog, parStatsLog>>
    /\ UNCHANGED parFirst
    /\ UNCHANGED notParVars

\* no memories: return await executeFunction(task, [])
ParSingle ==
    /\ parPc = "single"
    /\ \/ /\ parPc' = "raised"
          /\ parError' = "execute"
          /\ parExecLog' = (SingleCall :> Exec(FallbackMemories(parMemories), TRUE, NullResult))
                           @@ parExecLog
          /\ UNCHANGED parReturn
       \/ \E r \in ResultPool :
            /\ parPc' = "returned"
            /\ parReturn' = r
            /\ parExecLog' = (SingleCall :> Exec(FallbackMemories(parMemories), FALSE, r))
                             @@ parExecLog
            /\ UNCHANGED parError
    /\ UNCHANGED <<parEnabled, numVariants, parMemories, memoryChunks,
                   trajectories, bestTrajectory, parStatsLog, parCalls>>
    /\ UNCHANGED parFirst
    /\ UNCHANGED notParVars

\* the wrapper a trajectory promise settles to
Settled(i, r, memorySet) ==
    [index |-> i, result |-> r, success |-> r.success,
     score |-> ScoreTrajectory(r), memoriesUsed |-> memorySet]

\* variant: the catch block reports the base score of a success
CaughtScored(i, memorySet) ==
    [index |-> i, result |-> NullResult, success |-> FALSE, score |-> 5,
     memoriesUsed |-> memorySet]

\* the wrapper built in the catch block
Caught(i, memorySet) ==
    [index |-> i, result |-> NullResult, success |-> FALSE, score |-> 0,
     memoriesUsed |-> memorySet]

\* one of the N concurrently started trajectories settles; they settle in
\* any order.  A throwing executor and a null result (result.success
\* raises inside the try) both end in the catch block.
ParTrajectory(i) ==
    /\ parPc = "running"
    /\ i \in DOMAIN memoryChunks
    /\ i \notin DOMAIN trajectories
    /\ \/ \E threw \in BOOLEAN :
            /\ parExecLog' =
                  (i :> Exec(memoryChunks[i], threw, NullResult)) @@ parExecLog
            /\ trajectories' = (i :> Caught(i, memoryChunks[i])) @@ trajectories
       \/ \E r \in ResultPool \ {NullResult} :
            /\ parExecLog' = (i :> Exec(memoryChunks[i], FALSE, r)) @@ parExecLog
            /\ trajectories' =
                  (i :> Settled(i, r, memoryChunks[i])) @@ trajectories
    /\ UNCHANGED <<parEnabled, numVariants, parPc, parMemories,
                   memoryChunks, bestTrajectory, parReturn, parStatsLog,
                   parCalls, parError>>
    /\ parFirst' = IF parFirst = Absent THEN i ELSE parFirst
    /\ UNCHANGED notParVars

\* trajectories.filter(t => t.success), in array (variant index) order
RECURSIVE SuccessfulFrom(_, _, _)
SuccessfulFrom(trajs, i, n) ==
    IF i >= n THEN <<>>
    ELSE (IF trajs[i].success THEN <<trajs[i]>> ELSE <<>>)
         \o SuccessfulFrom(trajs, i + 1, n)

\* variant: on equal scores the later trajectory replaces the earlier
BetterLastWins(best, current) ==
    IF current.score >= best.score THEN current ELSE best

\* the reducer `(best, current) => current.score > best.score ? current : best`
Better(best, current) == IF current.score > best.score THEN current ELSE best

\* successfulTrajectories.reduce(reducer) without initial value
RECURSIVE Reduce(_, _, _)
Reduce(list, k, best) ==
    IF k > Len(list) THEN best
    ELSE Reduce(list, k + 1, Better(best, list[k]))

\* variant: the fallback when all failed is the last trajectory
SelectBestFallbackLast(trajs, n) ==
    LET successfulTrajectories == SuccessfulFrom(trajs, 0, n) IN
    IF Len(successfulTrajectories) > 0
    THEN Reduce(successfulTrajectories, 2, successfulTrajectories[1])
    ELSE trajs[n - 1]

\* the selection: best successful trajectory, else trajectories[0]
SelectBest(trajs, n) ==
    LET successfulTrajectories == SuccessfulFrom(trajs, 0, n) IN
    IF Len(successfulTrajectories) > 0
    THEN Reduce(successfulTrajectories, 2, successfulTrajectories[1])
    ELSE trajs[0]

\* variant: the wrapper that settled first is moved to the front of the array
FirstSettledFirst(trajs, first) ==
    [k \in DOMAIN trajs |->
        IF k = 0 THEN trajs[first]
        ELSE IF k <= first THEN trajs[k - 1] ELSE trajs[k]]

\* `await Promise.all(trajectoryPromises)`: the wrappers at the positions of
\* their promises (the variant index), whatever the order they settled in
PromiseAll(trajs, first) == trajs

\* after Promise.all: select, then either update the statistics or return
ParSelect ==
    /\ parPc = "running"
    /\ DOMAIN trajectories = DOMAIN memoryChunks
    /\ LET best == SelectBest(PromiseAll(trajectories, parFirst),
                              ToNumber(numVariants)) IN
       /\ bestTrajectory' = best
       /\ IF best.success /\ Len(best.memoriesUsed) > 0
          THEN /\ parPc' = "updating"
               /\ UNCHANGED parReturn
          ELSE /\ parPc' = "returned"
               /\ parReturn' = best.result
    /\ UNCHANGED <<parEnabled, numVariants, parMemories, memoryChunks,
                   trajectories, parExecLog, parStatsLog, parCalls,
                   parError>>
    /\ UNCHANGED parFirst
    /\ UNCHANGED notParVars

\* variant: the statistics of every retrieved memory are updated
StatsCallAllRetrieved(best, mems) == <<mems, TRUE>>

\* the arguments of updateMemoryStats(bestTrajectory.memoriesUsed, true)
StatsCall(best, mems) == <<best.memoriesUsed, TRUE>>

\* await this.memoryModel.updateMemoryStats(bestTrajectory.memoriesUsed, true)
ParUpdateStats ==
    /\ parPc = "updating"
    /\ parStatsLog' = Append(parStatsLog, StatsCall(bestTrajectory, parMemories))
    /\ \/ /\ parPc' = "raised"
          /\ parError' = "updateStats"
          /\ UNCHANGED parReturn
       \/ /\ parPc' = "returned"
          /\ parReturn' = bestTrajectory.result
          /\ UNCHANGED parError
    /\ UNCHANGED <<parEnabled, numVariants, parMemories, memoryChunks,
                   trajectories, bestTrajectory, parExecLog, parCalls>>
    /\ UNCHANGED parFirst
    /\ UNCHANGED notParVars

NextPar ==
    \/ ParDisabled
    \/ ParEmbed
    \/ ParRetrieve
    \/ ParSingle
    \/ \E i \in 0..(MaxVariants - 1) : ParTrajectory(i)
    \/ ParSelect
    \/ ParUpdateStats


-----------------------------------------------------------------------------
(* MemoryRecord values                                                     *)

Ids == 1..MaxRecords

\* successRate: null or the JS number num/den
Rate(n, d) == [isNull |-> FALSE, num |-> n, den |-> d]

NullRate == [isNull |-> TRUE, num |-> 0, den |-> 1]

\* `totalUses > 0 ? mergedTimesSuccessful / totalUses : null`
RateOf(succ, fail) ==
    IF succ + fail > 0 THEN Rate(succ, succ + fail) ELSE NullRate

\* JS `a > b` on two successRate values: null converts to 0
RateGreater(a, b) == a.num * b.den > b.num * a.den

\* an embedding field: null, a raw array, or a Firestore vector { _values }
Emb(k, v) == [kind |-> k, values |-> v]

NoEmbedding == Emb("null", <<>>)

\* (1,0) ~ (4,1) ~ (2,1) pairwise above 0.95, except (1,0) vs (2,1)
EmbA == Emb("array", <<1, 0>>)
EmbB == Emb("wrapped", <<4, 1>>)
EmbC == Emb("array", <<2, 1>>)

\* the maintenance clock, in days; timestamps are days too
StaleThresholdDays == 90

Now == StaleThresholdDays + 10

Record(st, r, s, f, e, c, u) ==
    [status |-> st, timesRetrieved |-> r, timesUsedInSuccess |-> s,
     timesUsedInFailure |-> f, successRate |-> RateOf(s, f), embedding |-> e,
     createdAt |-> c, updatedAt |-> u]

AbsentRecord == Record("absent", 0, 0, 0, NoEmbedding, Absent, Absent)

\* the documents the collection may hold when maintenance starts
RecordPool ==
    { Record("active", 10, 1, 9, EmbA, 50, 60),
      Record("active", 10, 3, 7, EmbA, 9, 10),
      Record("active", 5, 1, 0, EmbB, 5, 9),
      Record("active", 5, 0, 4, EmbB, 5, 50),
      Record("active", 12, 0, 0, EmbC, 9, Absent),
      Record("active", 9, 0, 9, EmbC, Absent, 9),
      Record("active", 0, 0, 0, NoEmbedding, Absent, Absent) }

-----------------------------------------------------------------------------
(* MemoryRepository                                                        *)

\* the value snapshot a scan hands out for document id
Snapshot(st, id) ==
    [id |-> id, timesRetrieved |-> st[id].timesRetrieved,
     timesUsedInSuccess |-> st[id].timesUsedInSuccess,
     timesUsedInFailure |-> st[id].timesUsedInFailure,
     successRate |-> st[id].successRate, embedding |-> st[id].embedding,
     createdAt |-> st[id].createdAt, updatedAt |-> st[id].updatedAt]

\* getAllMemories(limit): snapshots of the active documents, in id order
RECURSIVE ScanFrom(_, _)
ScanFrom(st, id) ==
    IF id > MaxRecords THEN <<>>
    ELSE (IF st[id].status = "active" THEN <<Snapshot(st, id)>> ELSE <<>>)
         \o ScanFrom(st, id + 1)

GetAllMemories(st) == ScanFrom(st, 1)

\* deleteMemory(id): the document is gone (deleting a missing one is a no-op)
DeleteMemory(st, id) == [st EXCEPT ![id] = AbsentRecord]

\* updateMemory(id, patch) of an existing document
UpdateMemory(st, id, patch) ==
    [st EXCEPT ![id] = [f \in DOMAIN @ |->
                          IF f \in DOMAIN patch THEN patch[f] ELSE @[f]]]

\* updateMemory of a missing document is refused (NotFound)
UpdateRefused(st, id) == st[id].status = "absent"

\* archiveMemory(id): status becomes archived
ArchiveMemory(st, id) ==
    IF st[id].status = "absent" THEN st
    ELSE [st EXCEPT ![id].status = "archived"]

InitStore == store \in [Ids -> RecordPool]

\* retrieveMemories(query, k, { minSuccessRate }): the documents a retrieval
\* may return are the active ones whose successRate is null or at least the
\* threshold minNum/minDen
Retrievable(st, minNum, minDen) ==
    { id \in Ids :
        /\ st[id].status = "active"
        /\ \/ st[id].successRate.isNull
           \/ st[id].successRate.num * minDen >= minNum * st[id].successRate.den }

\* its effect on the store: every returned document counts one more
\* retrieval and its updatedAt is bumped
RetrieveMemories(st, ids) ==
    [id \in Ids |->
        IF id \in ids
        THEN [st[id] EXCEPT !.timesRetrieved = @ + 1, !.updatedAt = Now]
        ELSE st[id]]

\* updateMemoryStats(ids, succeeded): per id a read-modify-write of the
\* counts and the rate; an id without document is skipped
UpdateMemoryStats(st, ids, succeeded) ==
    [id \in Ids |->
        IF id \in ids /\ st[id].status # "absent"
        THEN LET succ == st[id].timesUsedInSuccess + (IF succeeded THEN 1 ELSE 0)
                 fail == st[id].timesUsedInFailure + (IF succeeded THEN 0 ELSE 1)
             IN [st[id] EXCEPT !.timesUsedInSuccess = succ,
                               !.timesUsedInFailure = fail,
                               !.successRate = RateOf(succ, fail),
                               !.updatedAt = Now]
        ELSE st[id]]


-----------------------------------------------------------------------------
(* _cosineSimilarity                                                       *)

\* what `*` and `+=` give for an array entry that is not a number
\* (undefined, NaN, a non-numeric string)
NaN == -1000

\* x * y on JS numbers
Times(x, y) == IF x = NaN \/ y = NaN THEN NaN ELSE x * y

\* x + y on JS numbers
Plus(x, y) == IF x = NaN \/ y = NaN THEN NaN ELSE x + y

\* the accumulation `acc += a[i] * b[i]` over the entries from i on
RECURSIVE Dot(_, _, _)
Dot(a, b, i) ==
    IF i > Len(a) THEN 0
    ELSE Plus(Times(a[i], b[i]), Dot(a, b, i + 1))

\* the number dotProduct / (sqrt(sq1) * sqrt(sq2)), kept as its three parts
Sim(d, m1, m2) == [dot |-> d, sq1 |-> m1, sq2 |-> m2]

ZeroSim == Sim(0, 1, 1)

\* the result NaN
NaNSim == Sim(NaN, 1, 1)

\* `vec._values || vec` is an array
IsVector(vec) == vec.kind \in {"array", "wrapped"}

CosineSimilarity(vec1, vec2) ==
    IF vec1.kind = "null" \/ vec2.kind = "null" THEN ZeroSim
    ELSE IF ~IsVector(vec1) \/ ~IsVector(vec2) THEN ZeroSim
    ELSE IF Len(vec1.values) # Len(vec2.values) THEN ZeroSim
    ELSE LET d == Dot(vec1.values, vec2.values, 1)
             m1 == Dot(vec1.values, vec1.values, 1)
             m2 == Dot(vec2.values, vec2.values, 1)
         IN IF m1 = 0 \/ m2 = 0 THEN ZeroSim
            ELSE IF NaN \in {d, m1, m2} THEN NaNSim
            ELSE Sim(d, m1, m2)

\* sim >= num/den, for num/den >= 0
SimAtLeast(sim, num, den) ==
    /\ sim.dot # NaN
    /\ sim.dot >= 0
    /\ den * den * sim.dot * sim.dot >= num * num * sim.sq1 * sim.sq2

-----------------------------------------------------------------------------
(* consolidate() and its three passes                                      *)

\* lowQualityThreshold = 0.3 as a fraction, minRetrievals, similarityThreshold
\* = 0.95 as a fraction
LowQualityNum == 3
LowQualityDen == 10
MinRetrievals == 10
SimilarityNum == 19
SimilarityDen == 20

NewStats ==
    [totalMemories |-> 0, pruned |-> 0, merged |-> 0, archived |-> 0,
     success |-> "unset", errors |-> 0]

\* variant: a rate equal to the threshold counts as low quality
IsLowQualityInclusive(m) ==
    /\ m.timesRetrieved >= MinRetrievals
    /\ ~m.successRate.isNull
    /\ m.successRate.num * LowQualityDen <= LowQualityNum * m.successRate.den

\* the filter of pruneLowQualityMemories
IsLowQuality(m) ==
    /\ m.timesRetrieved >= MinRetrievals
    /\ ~m.successRate.isNull
    /\ m.successRate.num * LowQualityDen < LowQualityNum * m.successRate.den

ToPrune(mems) == SelectSeq(mems, IsLowQuality)

\* the pair test of the nested loops in detectAndMergeDuplicates
BothEmbedded(m1, m2) ==
    m1.embedding.kind # "null" /\ m2.embedding.kind # "null"

IsDuplicate(m1, m2) ==
    SimAtLeast(CosineSimilarity(m1.embedding, m2.embedding),
               SimilarityNum, SimilarityDen)

\* for (i ...) for (j = i + 1 ...): the queued pairs, in loop order
RECURSIVE PairsFrom(_, _, _)
PairsFrom(mems, i, j) ==
    IF i > Len(mems) THEN <<>>
    ELSE IF j > Len(mems) THEN PairsFrom(mems, i + 1, i + 2)
    ELSE (IF BothEmbedded(mems[i], mems[j]) /\ IsDuplicate(mems[i], mems[j])
          THEN <<[memory1 |-> mems[i], memory2 |-> mems[j],
                  similarity |-> CosineSimilarity(mems[i].embedding,
                                                  mems[j].embedding)]>>
          ELSE <<>>)
         \o PairsFrom(mems, i, j + 1)

DuplicatePairs(mems) == PairsFrom(mems, 1, 2)

\* number of _cosineSimilarity calls the nested loops make
RECURSIVE ComparisonsFrom(_, _, _)
ComparisonsFrom(mems, i, j) ==
    IF i > Len(mems) THEN 0
    ELSE IF j > Len(mems) THEN ComparisonsFrom(mems, i + 1, i + 2)
    ELSE (IF BothEmbedded(mems[i], mems[j]) THEN 1 ELSE 0)
         + ComparisonsFrom(mems, i, j + 1)

\* which record of a pair is kept: <<keep, remove>>
DecideKeep(memory1, memory2) ==
    IF RateGreater(memory1.successRate, memory2.successRate)
    THEN <<memory1, memory2>>
    ELSE IF RateGreater(memory2.successRate, memory1.successRate)
    THEN <<memory2, memory1>>
    ELSE IF memory1.timesRetrieved >= memory2.timesRetrieved
    THEN <<memory1, memory2>>
    ELSE <<memory2, memory1>>

\* the patch written to the kept record
MergePatch(keep, remove) ==
    [timesRetrieved |-> keep.timesRetrieved + remove.timesRetrieved,
     timesUsedInSuccess |-> keep.timesUsedInSuccess + remove.timesUsedInSuccess,
     timesUsedInFailure |-> keep.timesUsedInFailure + remove.timesUsedInFailure,
     successRate |-> RateOf(keep.timesUsedInSuccess + remove.timesUsedInSuccess,
                            keep.timesUsedInFailure + remove.timesUsedInFailure)]

\* variant: createdAt is preferred over updatedAt
IsStaleByCreation(m) ==
    IF m.updatedAt = Absent /\ m.createdAt = Absent THEN FALSE
    ELSE LET lastActivity == IF m.createdAt # Absent THEN m.createdAt
                             ELSE m.updatedAt
         IN lastActivity < Now - StaleThresholdDays

\* the filter of archiveStaleMemories: lastActivity < staleDate
IsStale(m) ==
    IF m.updatedAt = Absent /\ m.createdAt = Absent THEN FALSE
    ELSE LET lastActivity == IF m.updatedAt # Absent THEN m.updatedAt
                             ELSE m.createdAt
         IN lastActivity < Now - StaleThresholdDays

StaleMemories(mems) == SelectSeq(mems, IsStale)

\* one repository write as the log keeps it
Write(pass, op, id, ok) == [pass |-> pass, op |-> op, id |-> id, ok |-> ok]

ConsAtStart(runs, faults) ==
    /\ runLimit = runs
    /\ faultsLeft = faults
    /\ consPc = "idle"
    /\ consRun = 0
    /\ stats = NewStats
    /\ prevStats = NewStats
    /\ memories = <<>>
    /\ worklist = <<>>
    /\ cursor = 1
    /\ mergedCount = 0
    /\ comparisons = 0
    /\ consLog = <<>>


\* variant: the archive pass is awaited before the merge pass
NextPassSwapped(pass) ==
    CASE pass = "prune" -> "archive"
      [] pass = "archive" -> "merge"
      [] pass = "merge" -> "finish"

\* the order in which consolidate() awaits its passes: where control goes
\* when a pass returns
NextPass(pass) ==
    CASE pass = "prune" -> "merge"
      [] pass = "merge" -> "archive"
      [] pass = "archive" -> "finish"

\* variant: the failure of a write is not caught by the pass
CatchRethrows(loopPc) == "thrown"

\* the try/catch around each write of a pass: the failure is logged and the
\* loop goes on at loopPc
CatchPc(loopPc) == loopPc

\* variant: the catch block records the error but leaves success unset
ThrownUnmarked(st) == [st EXCEPT !.errors = @ + 1]

\* the catch block of consolidate(): errors.push, success = false, rethrow
Thrown(st) == [st EXCEPT !.errors = @ + 1, !.success = "false"]

\* consolidate() starts: fresh stats and the first getAllMemories
ConsBegin ==
    /\ consPc \in {"idle", "done", "thrown"}
    /\ consRun < runLimit
    /\ consRun' = consRun + 1
    /\ prevStats' = stats
    /\ memories' = <<>>
    /\ worklist' = <<>>
    /\ cursor' = 1
    /\ mergedCount' = 0
    /\ comparisons' = 0
    /\ \/ /\ stats' = [NewStats EXCEPT
                          !.totalMemories = Len(GetAllMemories(store))]
          /\ consPc' = "prune"
          /\ consLog' = <<>>
          /\ UNCHANGED faultsLeft
       \/ /\ faultsLeft > 0
          /\ faultsLeft' = faultsLeft - 1
          /\ stats' = Thrown(NewStats)
          /\ consLog' = <<Write("begin", "scan", 0, FALSE)>>
          /\ consPc' = "thrown"
    /\ UNCHANGED <<store, runLimit>>
    /\ UNCHANGED <<seqVars, parVars, clientVars, svcVars>>

\* a pass begins with its own getAllMemories; a failing scan is not caught
\* by the pass and ends consolidate() in its catch block
PassScan(pass, work, loopPc) ==
    /\ consPc = pass
    /\ \/ /\ memories' = GetAllMemories(store)
          /\ worklist' = work
          /\ cursor' = 1
          /\ consPc' = loopPc
          /\ UNCHANGED <<stats, faultsLeft, consLog>>
       \/ /\ faultsLeft > 0
          /\ faultsLeft' = faultsLeft - 1
          /\ stats' = Thrown(stats)
          /\ consLog' = Append(consLog, Write(pass, "scan", 0, FALSE))
          /\ consPc' = "thrown"
          /\ UNCHANGED <<memories, worklist, cursor>>
    /\ UNCHANGED <<store, consRun, prevStats, mergedCount, runLimit>>
    /\ UNCHANGED <<seqVars, parVars, clientVars, svcVars>>

\* pruneLowQualityMemories: scan and filter
PruneScan ==
    /\ PassScan("prune", ToPrune(GetAllMemories(store)), "pruneLoop")
    /\ UNCHANGED comparisons

\* one iteration of `for (const memory of toPrune)`: deleteMemory in try/catch
PruneDelete ==
    /\ consPc = "pruneLoop"
    /\ cursor <= Len(worklist)
    /\ LET id == worklist[cursor].id IN
       \/ /\ store' = DeleteMemory(store, id)
          /\ consLog' = Append(consLog, Write("prune", "delete", id, TRUE))
          /\ UNCHANGED <<faultsLeft, consPc>>
       \/ /\ faultsLeft > 0
          /\ faultsLeft' = faultsLeft - 1
          /\ consLog' = Append(consLog, Write("prune", "delete", id, FALSE))
          /\ consPc' = CatchPc("pruneLoop")
          /\ UNCHANGED store
    /\ cursor' = cursor + 1
    /\ UNCHANGED <<consRun, stats, prevStats, memories, worklist,
                   mergedCount, comparisons, runLimit>>
    /\ UNCHANGED <<seqVars, parVars, clientVars, svcVars>>

\* `return toPrune.length` and `stats.pruned = prunedCount`
PruneReturn ==
    /\ consPc = "pruneLoop"
    /\ cursor > Len(worklist)
    /\ stats' = [stats EXCEPT !.pruned = Len(worklist)]
    /\ consPc' = NextPass("prune")
    /\ UNCHANGED <<store, consRun, prevStats, memories, worklist, cursor,
                   mergedCount, comparisons, consLog, runLimit, faultsLeft>>
    /\ UNCHANGED <<seqVars, parVars, clientVars, svcVars>>

\* detectAndMergeDuplicates: scan and the nested comparison loops
MergeScan ==
    /\ PassScan("merge", DuplicatePairs(GetAllMemories(store)), "mergeLoop")
    /\ comparisons' = IF consPc' = "mergeLoop"
                      THEN ComparisonsFrom(GetAllMemories(store), 1, 2)
                      ELSE comparisons

\* one iteration of `for (const pair of duplicatePairs)` up to and including
\* updateMemory(keep.id, ...); a failure lands in the catch block and the
\* loop goes on with the next pair
MergeUpdate ==
    /\ consPc = "mergeLoop"
    /\ cursor <= Len(worklist)
    /\ LET pair == worklist[cursor]
           kr == DecideKeep(pair.memory1, pair.memory2)
           keep == kr[1]
           remove == kr[2]
       IN \/ /\ ~UpdateRefused(store, keep.id)
             /\ store' = UpdateMemory(store, keep.id, MergePatch(keep, remove))
             /\ consLog' = Append(consLog, Write("merge", "update", keep.id, TRUE))
             /\ consPc' = "mergeDelete"
             /\ UNCHANGED <<cursor, faultsLeft>>
          \/ /\ UpdateRefused(store, keep.id)
             /\ consLog' = Append(consLog, Write("merge", "update", keep.id, FALSE))
             /\ cursor' = cursor + 1
             /\ consPc' = CatchPc("mergeLoop")
             /\ UNCHANGED <<store, faultsLeft>>
          \/ /\ faultsLeft > 0
             /\ faultsLeft' = faultsLeft - 1
             /\ consLog' = Append(consLog, Write("merge", "update", keep.id, FALSE))
             /\ cursor' = cursor + 1
             /\ consPc' = CatchPc("mergeLoop")
             /\ UNCHANGED store
    /\ UNCHANGED <<consRun, stats, prevStats, memories, worklist, mergedCount,
                   comparisons, runLimit>>
    /\ UNCHANGED <<seqVars, parVars, clientVars, svcVars>>

\* the rest of the iteration: deleteMemory(remove.id) and mergedCount++
MergeDelete ==
    /\ consPc = "mergeDelete"
    /\ LET pair == worklist[cursor]
           remove == DecideKeep(pair.memory1, pair.memory2)[2]
       IN \/ /\ store' = DeleteMemory(store, remove.id)
             /\ consLog' = Append(consLog, Write("merge", "delete", remove.id, TRUE))
             /\ mergedCount' = mergedCount + 1
             /\ consPc' = "mergeLoop"
             /\ UNCHANGED faultsLeft
          \/ /\ faultsLeft > 0
             /\ faultsLeft' = faultsLeft - 1
             /\ consLog' = Append(consLog, Write("merge", "delete", remove.id, FALSE))
             /\ consPc' = CatchPc("mergeLoop")
             /\ UNCHANGED <<store, mergedCount>>
    /\ cursor' = cursor + 1
    /\ UNCHANGED <<consRun, stats, prevStats, memories, worklist, comparisons,
                   runLimit>>
    /\ UNCHANGED <<seqVars, parVars, clientVars, svcVars>>

\* `return mergedCount` and `stats.merged = mergedCount`
MergeReturn ==
    /\ consPc = "mergeLoop"
    /\ cursor > Len(worklist)
    /\ stats' = [stats EXCEPT !.merged = mergedCount]
    /\ consPc' = NextPass("merge")
    /\ UNCHANGED <<store, consRun, prevStats, memories, worklist, cursor,
                   mergedCount, comparisons, consLog, runLimit, faultsLeft>>
    /\ UNCHANGED <<seqVars, parVars, clientVars, svcVars>>

\* archiveStaleMemories: scan and filter
ArchiveScan ==
    /\ PassScan("archive", StaleMemories(GetAllMemories(store)), "archiveLoop")
    /\ UNCHANGED comparisons

\* one iteration of `for (const memory of staleMemories)`
ArchiveWrite ==
    /\ consPc = "archiveLoop"
    /\ cursor <= Len(worklist)
    /\ LET id == worklist[cursor].id IN
       \/ /\ store' = ArchiveMemory(store, id)
          /\ consLog' = Append(consLog, Write("archive", "archive", id, TRUE))
          /\ UNCHANGED <<faultsLeft, consPc>>
       \/ /\ faultsLeft > 0
          /\ faultsLeft' = faultsLeft - 1
          /\ consLog' = Append(consLog, Write("archive", "archive", id, FALSE))
          /\ consPc' = CatchPc("archiveLoop")
          /\ UNCHANGED store
    /\ cursor' = cursor + 1
    /\ UNCHANGED <<consRun, stats, prevStats, memories, worklist,
                   mergedCount, comparisons, runLimit>>
    /\ UNCHANGED <<seqVars, parVars, clientVars, svcVars>>

\* `return staleMemories.length` and `stats.archived = archivedCount`
ArchiveReturn ==
    /\ consPc = "archiveLoop"
    /\ cursor > Len(worklist)
    /\ stats' = [stats EXCEPT !.archived = Len(worklist)]
    /\ consPc' = NextPass("archive")
    /\ UNCHANGED <<store, consRun, prevStats, memories, worklist, cursor,
                   mergedCount, comparisons, consLog, runLimit, faultsLeft>>
    /\ UNCHANGED <<seqVars, parVars, clientVars, svcVars>>

\* stats.endTime, stats.success = true, return stats
ConsReturn ==
    /\ consPc = "finish"
    /\ stats' = [stats EXCEPT !.success = "true"]
    /\ consPc' = "done"
    /\ UNCHANGED <<store, consRun, prevStats, memories, worklist, cursor,
                   mergedCount, comparisons, consLog, runLimit, faultsLeft>>
    /\ UNCHANGED <<seqVars, parVars, clientVars, svcVars>>

NextCons ==
    \/ ConsBegin
    \/ PruneScan
    \/ PruneDelete
    \/ PruneReturn
    \/ MergeScan
    \/ MergeUpdate
    \/ MergeDelete
    \/ MergeReturn
    \/ ArchiveScan
    \/ ArchiveWrite
    \/ ArchiveReturn
    \/ ConsReturn


-----------------------------------------------------------------------------
(* The repository calls of a parallelScaling invocation of another task     *)

NoClient ==
    /\ clientPc = "idle"
    /\ clientIds = {}
    /\ clientCalls = 0

\* retrieveMemories(queryEmbedding, numVariants * 3, { minSuccessRate: 0.5 })
\* returning a non-empty list
ClientRetrieve ==
    /\ clientPc = "idle"
    /\ clientCalls < MaxClientCalls
    /\ \E ids \in SUBSET Retrievable(store, 1, 2) :
         /\ ids # {}
         /\ store' = RetrieveMemories(store, ids)
         /\ clientIds' = ids
    /\ clientPc' = "retrieved"
    /\ clientCalls' = clientCalls + 1
    /\ UNCHANGED <<seqVars, parVars, consVars, svcVars>>

\* updateMemoryStats(bestTrajectory.memoriesUsed, true): the winner's chunk
\* is a non-empty part of what was retrieved
ClientUpdateStats ==
    /\ clientPc = "retrieved"
    /\ \E used \in SUBSET clientIds :
         /\ used # {}
         /\ store' = UpdateMemoryStats(store, used, TRUE)
    /\ clientPc' = "idle"
    /\ clientIds' = {}
    /\ UNCHANGED <<clientCalls, seqVars, parVars, consVars, svcVars>>

\* no successful winner (or a winner with an empty chunk): no stats call
ClientNoUpdate ==
    /\ clientPc = "retrieved"
    /\ clientPc' = "idle"
    /\ clientIds' = {}
    /\ UNCHANGED <<clientCalls, store, seqVars, parVars, consVars, svcVars>>

NextConc ==
    \/ NextCons
    \/ ClientRetrieve
    \/ ClientUpdateStats
    \/ ClientNoUpdate

-----------------------------------------------------------------------------
(* One call of _scoreTrajectory on any result                              *)

\* values of `steps`: absent, 0, and values around the limit 10
StepsPool == {Absent, 0, 5, 9, 10}

\* values of `executionTime`: absent, 0, and values around the limit 5000
TimePool == {Absent, 0, 3000, 4999, 5000}

\* Object.keys(outputData).length: no outputData, and around the limit 5
KeysPool == {Absent, 5, 6}

\* htmlReport.length: no report, and around the limit 1000
HtmlPool == {Absent, 1000, 1001}

\* the results _scoreTrajectory is called with
ScoreInputs ==
    {NullResult} \cup
    { Result(FALSE, ok, st, et, ks, hl) :
        ok \in BOOLEAN, st \in StepsPool, et \in TimePool,
        ks \in KeysPool, hl \in HtmlPool }

ScoreAtStart(r) ==
    /\ scoreArg = r
    /\ scoreOut = Absent

InitScore == \E r \in ScoreInputs : ScoreAtStart(r)

NoScore == ScoreAtStart(NullResult)

\* const score = this._scoreTrajectory(result)
ScoreCall ==
    /\ scoreOut = Absent
    /\ scoreOut' = ScoreTrajectory(scoreArg)
    /\ UNCHANGED <<scoreArg, cosArgs, cosOut>>
    /\ UNCHANGED notFnVars

NextScore ==
    \/ ScoreCall

-----------------------------------------------------------------------------
(* One call of _cosineSimilarity on any pair of inputs                     *)

\* bound: longest vector handed to _cosineSimilarity
MaxDim == 2

\* the entries of a vector: small numbers, and an entry that is no number
EntryPool == {-1, 0, 1, 2, NaN}

\* the arrays of up to MaxDim entries
VecPool == UNION { [1..n -> EntryPool] : n \in 0..MaxDim }

\* the inputs: null / undefined, a value that is neither an array nor an
\* object with an array in _values (a string, a number, {}), a raw array,
\* a Firestore vector
CosInputs ==
    {NoEmbedding, Emb("other", <<>>)} \cup
    { Emb(k, v) : k \in {"array", "wrapped"}, v \in VecPool }

\* the value of cosOut before the call
NoSim == Sim(0, 0, 0)

CosAtStart(vec1, vec2) ==
    /\ cosArgs = <<vec1, vec2>>
    /\ cosOut = NoSim

InitCos == \E vec1 \in CosInputs, vec2 \in CosInputs : CosAtStart(vec1, vec2)

NoCos == CosAtStart(NoEmbedding, NoEmbedding)

\* const similarity = this._cosineSimilarity(vec1, vec2)
CosCall ==
    /\ cosOut = NoSim
    /\ cosOut' = CosineSimilarity(cosArgs[1], cosArgs[2])
    /\ UNCHANGED <<cosArgs, scoreArg, scoreOut>>
    /\ UNCHANGED notFnVars

NextCos ==
    \/ CosCall

-----------------------------------------------------------------------------
(* BuildMemoryService: extractFromRejection and extractFromBuildFailure     *)

\* bound: most candidates in one response of the text generation
MaxCandidates == 2

\* a value of the parsed response array: null, or an object that passes or
\* fails validator.validateMemory; "char" is a character of a parsed string
Candidate(k, ok) == [kind |-> k, shapeOk |-> ok]

CandidatePool ==
    { Candidate("null", FALSE), Candidate("object", FALSE),
      Candidate("object", TRUE) }

\* what JSON.parse(this._extractJSON(responseText)) evaluates to
Parsed(k, xs) == [kind |-> k, items |-> xs]

\* the empty array `[]`
EmptyList == Parsed("array", <<>>)

\* the local `memories` before _extractMemories returned
NoMemories == Parsed("none", <<>>)

\* a JSON string literal of n characters
StringOf(n) == Parsed("string", [i \in 1..n |-> Candidate("char", FALSE)])

\* the values a response can parse to: an array of candidates, a string,
\* null, or a number / boolean / object
ParsedPool ==
    { Parsed("array", xs) :
        xs \in UNION { [1..n -> CandidatePool] : n \in 0..MaxCandidates } }
    \cup { StringOf(n) : n \in 1..MaxCandidates }
    \cup { Parsed("null", <<>>), Parsed("scalar", <<>>) }

ExtAtStart(op, status) ==
    /\ extOp = op
    /\ extStatus = status
    /\ extPc = "start"
    /\ extMemories = NoMemories
    /\ extCursor = 1
    /\ extOutcomes = <<>>
    /\ extAdds = <<>>
    /\ extReturn = NoMemories

InitExt ==
    \E op \in {"rejection", "buildFailure"}, status \in {"n/a", "SUCCESS", "FAILURE"} :
        /\ (op = "rejection") <=> (status = "n/a")
        /\ ExtAtStart(op, status)

NoExt ==
    /\ ExtAtStart("rejection", "n/a")

\* extractFromBuildFailure: `if (buildResult.status === 'SUCCESS') return [];`
SkipSuccessfulBuild ==
    /\ extPc = "start"
    /\ extOp = "buildFailure" /\ extStatus = "SUCCESS"
    /\ extPc' = "returned"
    /\ extReturn' = EmptyList
    /\ UNCHANGED <<extOp, extStatus, extMemories, extCursor, extOutcomes,
                   extAdds>>
    /\ UNCHANGED notExtVars

\* the value is one `memories.length` and `for (... of memories)` accept:
\* an array or a string; null fails at `.length`, a number, boolean or
\* plain object at the for-of
Iterable(parsed) == parsed.kind \in {"array", "string"}

\* `const memories = await this._extractMemories(prompt)` inside the try
\* block, up to the first _storeMemory call.  The call throws (model name
\* lookup, generateContent, the shape of the response, JSON.parse) or
\* returns whatever the response text parses to.
ExtractMemories ==
    /\ extPc = "start"
    /\ extOp = "buildFailure" => extStatus # "SUCCESS"
    /\ \/ \* _extractMemories throws: catch, return []
          /\ extPc' = "returned"
          /\ extReturn' = EmptyList
          /\ extMemories' = Parsed("threw", <<>>)
       \/ \E parsed \in ParsedPool :
            /\ extMemories' = parsed
            /\ IF Iterable(parsed)
               THEN extPc' = "store" /\ UNCHANGED extReturn
               ELSE \* TypeError inside the try block: catch, return []
                    extPc' = "returned" /\ extReturn' = EmptyList
    /\ UNCHANGED <<extOp, extStatus, extCursor, extOutcomes, extAdds>>
    /\ UNCHANGED notExtVars

\* how one _storeMemory(memory, metadata) call ends for a candidate that
\* is not null: the steps that can fail after the shape validation are the
\* embedContent call, validator.validateEmbedding and addMemory
StoreOutcomes(memory) ==
    IF ~memory.shapeOk THEN {"invalidShape"}
    ELSE {"embedFailed", "invalidEmbedding", "addFailed", "stored"}

\* addMemory is reached
ReachesAdd(outcome) == outcome \in {"addFailed", "stored"}

\* one turn of `for (const memory of memories) await this._storeMemory(...)`.
\* For a null memory the logger arguments `memory.title?.substring(0, 50)`
\* raise a TypeError in the try block and again in the catch block of
\* _storeMemory, so the error reaches the caller's catch: return [].
StoreMemory ==
    /\ extPc = "store"
    /\ extCursor <= Len(extMemories.items)
    /\ LET memory == extMemories.items[extCursor] IN
       IF memory.kind = "null"
       THEN /\ extOutcomes' = Append(extOutcomes, "escaped")
            /\ extPc' = "returned"
            /\ extReturn' = EmptyList
            /\ UNCHANGED <<extCursor, extAdds>>
       ELSE \E outcome \in StoreOutcomes(memory) :
            /\ extOutcomes' = Append(extOutcomes, outcome)
            /\ extAdds' = IF ReachesAdd(outcome)
                          THEN Append(extAdds, extCursor)
                          ELSE extAdds
            /\ extCursor' = extCursor + 1
            /\ UNCHANGED <<extPc, extReturn>>
    /\ UNCHANGED <<extOp, extStatus, extMemories>>
    /\ UNCHANGED notExtVars

\* the loop is over: `return memories;`
ExtractReturn ==
    /\ extPc = "store"
    /\ extCursor > Len(extMemories.items)
    /\ extPc' = "returned"
    /\ extReturn' = extMemories
    /\ UNCHANGED <<extOp, extStatus, extMemories, extCursor, extOutcomes,
                   extAdds>>
    /\ UNCHANGED notExtVars

NextExt ==
    \/ SkipSuccessfulBuild
    \/ ExtractMemories
    \/ StoreMemory
    \/ ExtractReturn

-----------------------------------------------------------------------------
(* BuildMemoryService: retrieveForCodeGeneration                           *)

\* bound: largest topK argument explored
MaxTopK == 3

\* the categories of the memories a retrieval hands back
CategoryPool ==
    {"code_rejection", "error_pattern", "general_strategy", "task_execution"}

\* const buildCategories = [...]
BuildCategories ==
    {"code_rejection", "build_failure", "generation_pattern", "fix_strategy",
     "error_pattern"}

\* a retrieved memory: its place in the retrieval result and its category
Memory(i, c) == [id |-> i, category |-> c]

\* retrieveMemories(queryEmbedding, topK, { minSuccessRate: 0.5 }) resolves
\* with up to topK records
RetrievalResults(topK) ==
    UNION { { [i \in 1..n |-> Memory(i, cs[i])] : cs \in [1..n -> CategoryPool] } :
            n \in 0..topK }

\* what the retrieval handed back: a list, or null
Retrieved(k, ms) == [kind |-> k, items |-> ms]

NothingRetrieved == Retrieved("none", <<>>)

RcgAtStart(topK) ==
    /\ rcgTopK = topK
    /\ rcgPc = "start"
    /\ rcgMemories = NothingRetrieved
    /\ rcgError = "none"
    /\ rcgReturn = <<>>

InitRcg == \E topK \in 1..MaxTopK : RcgAtStart(topK)

NoRcg == RcgAtStart(1)

\* m => buildCategories.includes(m.category)
IsBuildRelated(m) == m.category \in BuildCategories

\* memories.filter(m => buildCategories.includes(m.category))
BuildMemories(mems) == SelectSeq(mems, IsBuildRelated)

\* variant: one build-related memory is enough to drop the others
RelevantMemoriesFromOne(mems) ==
    IF Len(BuildMemories(mems)) >= 1 THEN BuildMemories(mems) ELSE mems

\* buildMemories.length >= 2 ? buildMemories : memories
RelevantMemories(mems) ==
    IF Len(BuildMemories(mems)) >= 2 THEN BuildMemories(mems) ELSE mems

\* await embeddingService.embedQuery(queryText, 'RETRIEVAL_QUERY'); a
\* rejection is caught: return []
RcgEmbed ==
    /\ rcgPc = "start"
    /\ \/ /\ rcgPc' = "retrieve"
          /\ UNCHANGED rcgError
       \/ /\ rcgPc' = "returned"
          /\ rcgError' = "embed"
    /\ UNCHANGED <<rcgTopK, rcgMemories, rcgReturn>>
    /\ UNCHANGED notRcgVars

\* await this.memoryModel.retrieveMemories(...), the category filter and
\* the return.  A rejection, and the TypeError of `memories.filter` on
\* null, are caught: return []
RcgRetrieve ==
    /\ rcgPc = "retrieve"
    /\ rcgPc' = "returned"
    /\ \/ /\ rcgError' = "retrieve"
          /\ rcgMemories' = Retrieved("threw", <<>>)
          /\ rcgReturn' = <<>>
       \/ /\ rcgError' = "filter"
          /\ rcgMemories' = Retrieved("null", <<>>)
          /\ rcgReturn' = <<>>
       \/ \E mems \in RetrievalResults(rcgTopK) :
            /\ rcgMemories' = Retrieved("list", mems)
            /\ rcgReturn' = RelevantMemories(mems)
            /\ UNCHANGED rcgError
    /\ UNCHANGED rcgTopK
    /\ UNCHANGED notRcgVars

NextRcg ==
    \/ RcgEmbed
    \/ RcgRetrieve

\* no call of the service functions is part of the run
NoSvc == NoScore /\ NoCos /\ NoExt /\ NoRcg

-----------------------------------------------------------------------------
(* Specifications: one invocation of each operation at a time               *)

\* the memory collection at rest, no maintenance run
NoCons ==
    /\ ConsAtStart(0, 0)
    /\ store = [id \in Ids |-> AbsentRecord]
    /\ NoClient

InitSeqRun == InitSeq /\ NoPar /\ NoCons /\ NoSvc

SpecSeq == InitSeqRun /\ [][NextSeq]_vars

InitParRun == InitPar /\ NoSeq /\ NoCons /\ NoSvc

SpecPar == InitParRun /\ [][NextPar]_vars

\* one maintenance run over any collection, the repository failing up to
\* MaxFaults times
InitConsRun ==
    /\ InitStore /\ ConsAtStart(1, MaxFaults)
    /\ NoClient /\ NoSeq /\ NoPar /\ NoSvc

SpecCons == InitConsRun /\ [][NextCons]_vars

\* MaxRuns maintenance runs in a row over any collection, no repository
\* failure and no other writer
InitConsTwice ==
    /\ InitStore /\ ConsAtStart(MaxRuns, 0)
    /\ NoClient /\ NoSeq /\ NoPar /\ NoSvc

SpecTwice == InitConsTwice /\ [][NextCons]_vars

\* the documents of a collection in use, most with every retrieval used
YoungPool ==
    { Record("active", 0, 0, 0, EmbA, 50, 60),
      Record("active", 1, 1, 0, EmbA, 50, 60),
      Record("active", 2, 1, 0, EmbB, 50, 60),
      Record("active", 1, 0, 1, EmbC, 5, 9),
      Record("active", 10, 1, 9, EmbC, 50, 60) }

\* one maintenance run while another task retrieves and reports statistics
InitConcRun ==
    /\ store \in [Ids -> YoungPool]
    /\ ConsAtStart(1, 0)
    /\ NoClient /\ NoSeq /\ NoPar /\ NoSvc

SpecConc == InitConcRun /\ [][NextConc]_vars

\* the documents of a collection whose near-duplicates form a chain: the
\* middle embedding is close to both ends, its rate lies between theirs
ChainPool ==
    { Record("active", 10, 3, 7, EmbA, 9, 10),
      Record("active", 5, 1, 4, EmbB, 50, 60),
      Record("active", 9, 0, 9, EmbC, Absent, 9),
      Record("active", 10, 1, 9, EmbA, 50, 60) }

\* one maintenance run over such a collection, no repository failure and no
\* other writer
InitChainRun ==
    /\ store \in [Ids -> ChainPool]
    /\ ConsAtStart(1, 0)
    /\ NoClient /\ NoSeq /\ NoPar /\ NoSvc

SpecChain == InitChainRun /\ [][NextCons]_vars

\* one call of _scoreTrajectory
InitScoreRun ==
    InitScore /\ NoCos /\ NoExt /\ NoRcg /\ NoSeq /\ NoPar /\ NoCons

SpecScore == InitScoreRun /\ [][NextScore]_vars

\* one call of _cosineSimilarity
InitCosRun ==
    InitCos /\ NoScore /\ NoExt /\ NoRcg /\ NoSeq /\ NoPar /\ NoCons

SpecCos == InitCosRun /\ [][NextCos]_vars

\* one call of extractFromRejection or extractFromBuildFailure
InitExtRun ==
    InitExt /\ NoScore /\ NoCos /\ NoRcg /\ NoSeq /\ NoPar /\ NoCons

SpecExt == InitExtRun /\ [][NextExt]_vars

\* one call of retrieveForCodeGeneration
InitRcgRun ==
    InitRcg /\ NoScore /\ NoCos /\ NoExt /\ NoSeq /\ NoPar /\ NoCons

SpecRcg == InitRcgRun /\ [][NextRcg]_vars

-----------------------------------------------------------------------------
(* Properties of sequentialScaling                                         *)

\* every result execute returned so far is a failure (success false)
AllFailed(trace) ==
    \A k \in 1..Len(trace) : ~trace[k].isNull /\ ~trace[k].success

\* C1: with the feature enabled, one call of sequentialScaling invokes
\* execute at most maxIterations times, whatever the executor, the reflector
\* and the retrieval do; when every result is a failure and every reflect
\* said shouldRefine, a call that returns has invoked execute exactly
\* maxIterations times, and once that many calls are made the loop is left
\* and the call returns.
C1_SequentialCap ==
    seqEnabled =>
        /\ seqCalls.execute <= maxIterations
        /\ (seqPc = "returned" /\ hasReflect /\ seqRefineAll
              /\ AllFailed(seqTrace))
           => seqCalls.execute = maxIterations
        /\ (seqPc = "loop" /\ seqCalls.execute = maxIterations)
           => (ENABLED SeqLoopExit /\ ~ENABLED SeqRetrieve)

\* C1 witness: maxIterations failed iterations, each followed by a reflect
\* asking for refinement, then the return
C1_Witness ==
    /\ seqEnabled /\ hasReflect /\ maxIterations = MaxIter
    /\ seqPc = "returned"
    /\ seqRefineAll /\ AllFailed(seqTrace)
    /\ seqCalls.execute = MaxIter /\ seqCalls.reflect = MaxIter

-----------------------------------------------------------------------------
(* Properties of parallelScaling                                           *)

\* the selection step has run
Selected == bestTrajectory.index >= 0

SomeSuccess == \E i \in DOMAIN trajectories : trajectories[i].success

\* C2: when at least one trajectory is successful, the selected trajectory is
\* a successful one of maximum score, the one of lowest variant index among
\* those of maximum score, and the call returns its raw executor result.
C2_ParallelSelection ==
    (Selected /\ SomeSuccess) =>
        /\ bestTrajectory.index \in DOMAIN trajectories
        /\ bestTrajectory = trajectories[bestTrajectory.index]
        /\ bestTrajectory.success
        /\ \A i \in DOMAIN trajectories :
              trajectories[i].success =>
                 \/ trajectories[i].score < bestTrajectory.score
                 \/ /\ trajectories[i].score = bestTrajectory.score
                    /\ bestTrajectory.index <= i
        /\ parPc = "returned" => parReturn = bestTrajectory.result

\* C2 witness: two successful trajectories tie on the maximum score, a third
\* successful one scores less, and the call returned the result of the tied
\* trajectory with the lower index although the two results differ
C2_Witness ==
    /\ parPc = "returned" /\ Selected
    /\ \E i, j, k \in DOMAIN trajectories :
          /\ i < j
          /\ trajectories[i].success /\ trajectories[j].success
          /\ trajectories[k].success
          /\ trajectories[i].score = trajectories[j].score
          /\ trajectories[k].score < trajectories[i].score
          /\ trajectories[i].result # trajectories[j].result
          /\ bestTrajectory.index = i
          /\ parReturn = trajectories[i].result

-----------------------------------------------------------------------------
(* Properties of consolidate()                                             *)

\* positions of the log entries of one kind
Entries(pass, op) ==
    { k \in 1..Len(consLog) : consLog[k].pass = pass /\ consLog[k].op = op }

\* a write of this kind was issued for id (whether or not it succeeded)
Issued(pass, op, id) == \E k \in Entries(pass, op) : consLog[k].id = id

\* the for-of loop of the running pass has handled its whole worklist
LoopFinished(loopPc) == consPc = loopPc /\ cursor > Len(worklist)

\* C3: if consolidate() runs twice in a row with no write in between and no
\* write failure, the second run reports pruned = 0, merged = 0, archived = 0.
C3_IdempotentConsolidation ==
    (consRun >= 2 /\ consPc = "done" /\ prevStats.success = "true") =>
        stats.pruned = 0 /\ stats.merged = 0 /\ stats.archived = 0

\* successRate = timesUsedInSuccess / (timesUsedInSuccess + timesUsedInFailure)
\* if the denominator is positive, null otherwise
RateConsistent(rec) ==
    LET uses == rec.timesUsedInSuccess + rec.timesUsedInFailure IN
    IF uses > 0
    THEN /\ ~rec.successRate.isNull
         /\ rec.successRate.num * uses = rec.timesUsedInSuccess * rec.successRate.den
    ELSE rec.successRate.isNull

\* C4: after any interleaving of retrievals, stat updates of parallelScaling
\* and consolidate() runs, every stored record has a successRate consistent
\* with its counts and timesUsedInSuccess + timesUsedInFailure <= timesRetrieved.
C4_StatInvariant ==
    \A id \in Ids :
        store[id].status # "absent" =>
            /\ RateConsistent(store[id])
            /\ store[id].timesUsedInSuccess + store[id].timesUsedInFailure
                  <= store[id].timesRetrieved

\* C5: the prune pass issues a delete for a scanned record if and only if
\* timesRetrieved >= 10 and successRate is not null and successRate < 0.30.
C5_PrunePredicate ==
    consPc = "pruneLoop" =>
        /\ \A k \in 1..Len(memories) :
              Issued("prune", "delete", memories[k].id) =>
                 /\ memories[k].timesRetrieved >= 10
                 /\ ~memories[k].successRate.isNull
                 /\ 10 * memories[k].successRate.num
                       < 3 * memories[k].successRate.den
        /\ \A k \in Entries("prune", "delete") :
              \E n \in 1..Len(memories) : memories[n].id = consLog[k].id
        /\ LoopFinished("pruneLoop") =>
              \A k \in 1..Len(memories) :
                 ( /\ memories[k].timesRetrieved >= 10
                   /\ ~memories[k].successRate.isNull
                   /\ 10 * memories[k].successRate.num
                         < 3 * memories[k].successRate.den )
                 => Issued("prune", "delete", memories[k].id)

\* C5 witness: the prune loop is through; it deleted a record and left alone
\* a record with 10 retrievals whose rate is exactly 0.30, one with a rate
\* below 0.30 but 9 retrievals, and one with a null rate and 12 retrievals
C5_Witness ==
    /\ LoopFinished("pruneLoop")
    /\ Len(worklist) >= 1
    /\ \E k \in 1..Len(memories) :
          /\ memories[k].timesRetrieved >= 10
          /\ ~memories[k].successRate.isNull
          /\ 10 * memories[k].successRate.num = 3 * memories[k].successRate.den
          /\ ~Issued("prune", "delete", memories[k].id)
    /\ \E k \in 1..Len(memories) :
          \/ /\ memories[k].timesRetrieved = 9
             /\ ~memories[k].successRate.isNull
             /\ memories[k].successRate.num = 0
             /\ ~Issued("prune", "delete", memories[k].id)
          \/ /\ memories[k].timesRetrieved = 12
             /\ memories[k].successRate.isNull
             /\ ~Issued("prune", "delete", memories[k].id)

\* C6: for a scan of n records the merge pass makes at most n(n-1)/2
\* similarity comparisons and issues a delete for each record id at most once.
C6_MergeDeleteOnce ==
    /\ consPc \in {"mergeLoop", "mergeDelete"} =>
          2 * comparisons <= Len(memories) * (Len(memories) - 1)
    /\ \A id \in Ids :
          Cardinality({ k \in Entries("merge", "delete") : consLog[k].id = id }) <= 1

PassRank(pass) ==
    CASE pass = "begin" -> 0
      [] pass = "prune" -> 1
      [] pass = "merge" -> 2
      [] pass = "archive" -> 3

\* C7: consolidate() runs prune, merge, archive strictly in that order: the
\* writes are issued in pass order, a merge write only after the prune loop
\* has handled all of toPrune and returned, an archive write only after the
\* merge pass has returned.
C7_PassOrder ==
    /\ \A i, j \in 1..Len(consLog) :
          i < j => PassRank(consLog[i].pass) <= PassRank(consLog[j].pass)
    /\ (Entries("merge", "update") \cup Entries("merge", "delete")) # {} =>
          /\ consPc \notin {"prune", "pruneLoop"}
          /\ Cardinality(Entries("prune", "delete")) = stats.pruned
    /\ Entries("archive", "archive") # {} =>
          consPc \in {"archiveLoop", "finish", "done"}

\* C7 witness: a completed run that wrote in all three passes
C7_Witness ==
    /\ consPc = "done"
    /\ Entries("prune", "delete") # {}
    /\ Entries("merge", "update") # {}
    /\ Entries("merge", "delete") # {}
    /\ Entries("archive", "archive") # {}

\* the ids the merge rule of the specification allows to keep for a pair
ClaimedKeep(m1, m2) ==
    IF m1.successRate.isNull # m2.successRate.isNull
    THEN IF m1.successRate.isNull THEN {m2.id} ELSE {m1.id}
    ELSE IF RateGreater(m1.successRate, m2.successRate) THEN {m1.id}
    ELSE IF RateGreater(m2.successRate, m1.successRate) THEN {m2.id}
    ELSE IF m1.timesRetrieved > m2.timesRetrieved THEN {m1.id}
    ELSE IF m2.timesRetrieved > m1.timesRetrieved THEN {m2.id}
    ELSE IF m1.createdAt = Absent \/ m2.createdAt = Absent
            \/ m1.createdAt = m2.createdAt
    THEN {m1.id, m2.id}
    ELSE IF m1.createdAt < m2.createdAt THEN {m1.id} ELSE {m2.id}

\* C8: for every candidate pair the record kept (the one updateMemory is
\* issued for) is the one with the higher successRate, null losing to any
\* non-null rate; on equal rates the one retrieved more often; on a further
\* tie the one created earlier; the other record is the one deleted.
C8_MergeWinner ==
    consPc = "mergeDelete" =>
        LET pair == worklist[cursor] IN
        consLog[Len(consLog)].id \in ClaimedKeep(pair.memory1, pair.memory2)

Latest(a, b) == IF a >= b THEN a ELSE b

LastWriteFailed == Len(consLog) > 0 /\ ~consLog[Len(consLog)].ok

\* C10: a failing per-record write is not propagated: only a failed scan
\* ends consolidate() in its catch block, every element of a pass's worklist
\* is attempted whatever failed before it, after a failure the run has a next
\* step until it is done,
\* and a run that is done reports success = true and no error.
C10_WriteFailuresSkipped ==
    /\ consPc = "thrown" => consLog[Len(consLog)].op = "scan"
    /\ consPc = "pruneLoop" =>
          Cardinality(Entries("prune", "delete")) = cursor - 1
    /\ consPc = "mergeLoop" =>
          Cardinality(Entries("merge", "update")) = cursor - 1
    /\ consPc = "mergeDelete" =>
          Cardinality(Entries("merge", "update")) = cursor
    /\ consPc = "archiveLoop" =>
          Cardinality(Entries("archive", "archive")) = cursor - 1
    /\ (LastWriteFailed /\ consPc \notin {"done", "thrown"}) => ENABLED NextCons
    /\ consPc = "done" => stats.success = "true" /\ stats.errors = 0

\* C10 witness: a run that is done with success = true although a write
\* failed; a later element of the same pass was still written and a later
\* pass still made its writes
C10_Witness ==
    /\ consPc = "done" /\ stats.success = "true"
    /\ \E i, j, k \in 1..Len(consLog) :
          /\ i < j /\ j < k
          /\ consLog[i].op # "scan" /\ ~consLog[i].ok
          /\ consLog[j].pass = consLog[i].pass /\ consLog[j].op # "scan"
          /\ consLog[k].pass # consLog[i].pass /\ consLog[k].op # "scan"

-----------------------------------------------------------------------------
(* Failure of the initial scan of consolidate()                            *)

\* the getAllMemories of consolidate() itself (line 38) was the call that failed
InitialScanFailed == Len(consLog) >= 1 /\ consLog[1].pass = "begin"

\* a prune, merge or archive write was issued during the run
SomeWriteIssued == \E k \in 1..Len(consLog) : consLog[k].op # "scan"

\* C11 as stated: if the initial scan fails the caller receives Stats with
\* success = false and the error in stats.errors, and no write is issued.
C11_InitialScanFailureReturned ==
    InitialScanFailed =>
        /\ consPc = "done"
        /\ stats.success = "false" /\ stats.errors >= 1
        /\ ~SomeWriteIssued

\* C11 amended: if the initial scan fails, consolidate() records
\* success = false and the error in its stats, rejects with that error
\* instead of returning the stats, and no prune, merge or archive write is
\* issued.
C11_InitialScanFailureRethrown ==
    InitialScanFailed =>
        /\ consPc = "thrown"
        /\ stats.success = "false" /\ stats.errors = 1
        /\ stats.pruned = 0 /\ stats.merged = 0 /\ stats.archived = 0
        /\ ~SomeWriteIssued
        /\ store \in [Ids -> RecordPool]

\* C11 witness: the run ended in the catch block on its very first call
C11_Witness ==
    /\ consPc = "thrown"
    /\ consRun = 1
    /\ consLog = <<Write("begin", "scan", 0, FALSE)>>
    /\ stats.success = "false"

-----------------------------------------------------------------------------
(* Fallbacks, distribution and error handling of parallelScaling           *)

\* exactly one executor call was made, the fallback one, with an empty list
OnlySingleCall ==
    DOMAIN parExecLog = {SingleCall} /\ parExecLog[SingleCall].memories = <<>>

\* C12: with the feature enabled and numVariants <= 0 or null, whatever the
\* retrieval returns, parallelScaling makes exactly one call
\* execute(task, []) and resolves with its result; it fails only if the
\* embedder, the retrieval or that executor call fails.
C12_NonPositiveVariantsFallBack ==
    (parEnabled /\ ToNumber(numVariants) <= 0) =>
        /\ parPc = "raised" => parError \in {"embed", "retrieve", "execute"}
        /\ parPc = "returned" => OnlySingleCall
        /\ parPc \notin {"running", "updating"}

\* the retrieval answered, with an empty list or null
RetrievedNothing ==
    /\ parEnabled /\ parCalls.retrieve = 1 /\ parError # "retrieve"
    /\ parPc # "retrieve"
    /\ parMemories \in {NullList, <<>>}

\* C13: when the feature is disabled, or the retrieval returns an empty list
\* or null, parallelScaling makes exactly one executor call, with an empty
\* memory list, returns that call's result unchanged and issues no
\* updateMemoryStats call.
C13_SingleExecutionFallback ==
    (~parEnabled \/ RetrievedNothing) =>
        /\ parStatsLog = <<>>
        /\ DOMAIN parExecLog \subseteq {SingleCall}
        /\ parPc \in {"start", "single", "returned", "raised"}
        /\ parPc \in {"returned", "raised"} => OnlySingleCall
        /\ parPc = "returned" =>
              /\ ~parExecLog[SingleCall].threw
              /\ parReturn = parExecLog[SingleCall].result
        /\ parPc = "raised" =>
              parError = "execute" /\ parExecLog[SingleCall].threw
        /\ ~parEnabled => parCalls = NoParCalls

\* C13 witness: the retrieval answered null and the call resolved with the
\* successful result of its only executor call
C13_Witness ==
    /\ parEnabled /\ numVariants = MaxVariants
    /\ parMemories = NullList
    /\ parPc = "returned"
    /\ OnlySingleCall
    /\ parReturn.success
    /\ parReturn = parExecLog[SingleCall].result

\* the retrieval answered a non-empty list and numVariants is at least 1
Distributed ==
    /\ parEnabled /\ ToNumber(numVariants) >= 1
    /\ parMemories # NullList /\ Len(parMemories) > 0

\* all trajectory promises have settled (Promise.all resolved)
AllSettled ==
    parPc \in {"updating", "returned", "raised"}
    \/ (parPc = "running" /\ DOMAIN trajectories = DOMAIN memoryChunks)

\* number of 0-based positions i, i+N, i+2N, ... below len
StrideCount(i, n, len) == IF i >= len THEN 0 ELSE (len - i - 1) \div n + 1

\* the memories at 0-based positions i, i+N, i+2N, ... of list, in order
Stride(list, i, n) ==
    [j \in 1..StrideCount(i, n, Len(list)) |-> list[i + (j - 1) * n + 1]]

\* C14: for N >= 1 and a non-empty retrieved list M, execute is invoked
\* exactly N times, variant i receiving exactly the memories at positions
\* i, i+N, i+2N, ... of M in that order; every position of M goes to exactly
\* one variant, and a variant with index >= |M| receives an empty list and
\* still runs.
C14_RoundRobinDistribution ==
    Distributed =>
        LET n == ToNumber(numVariants) IN
        /\ DOMAIN parExecLog \subseteq 0..(n - 1)
        /\ \A i \in DOMAIN parExecLog :
              /\ parExecLog[i].memories = Stride(parMemories, i, n)
              /\ i >= Len(parMemories) => parExecLog[i].memories = <<>>
        /\ AllSettled =>
              /\ DOMAIN parExecLog = 0..(n - 1)
              /\ \A p \in 1..Len(parMemories) :
                    Cardinality({ <<i, j>> \in (0..(n - 1)) \X (1..Len(parMemories)) :
                                    /\ j <= Len(parExecLog[i].memories)
                                    /\ parExecLog[i].memories[j] = parMemories[p] }) = 1

\* C14 witness: three variants ran on four memories; variant 0 received the
\* first and the fourth memory
C14_Witness ==
    /\ Distributed /\ AllSettled
    /\ numVariants = 3 /\ Len(parMemories) = 4
    /\ parExecLog[0].memories = <<parMemories[1], parMemories[4]>>
    /\ parExecLog[1].memories = <<parMemories[2]>>
    /\ parExecLog[2].memories = <<parMemories[3]>>

\* the executor call of variant i threw
Threw(i) == i \in DOMAIN parExecLog /\ parExecLog[i].threw

\* C15: an exception thrown by the executor of a variant is not propagated:
\* that variant becomes a trajectory with success = false and score 0, the
\* trajectories of the other variants are what their executors returned,
\* and if another variant succeeded the value returned is a successful
\* result.
C15_ExecutorExceptionContained ==
    (Distributed /\ \E i \in DOMAIN parExecLog : Threw(i)) =>
        /\ parError # "execute"
        /\ parPc = "raised" => parError = "updateStats"
        /\ \A i \in DOMAIN trajectories :
              IF Threw(i)
              THEN /\ ~trajectories[i].success
                   /\ trajectories[i].score = 0
                   /\ trajectories[i].result = NullResult
              ELSE parExecLog[i].result.isNull
                   \/ /\ trajectories[i].result = parExecLog[i].result
                      /\ trajectories[i].success = parExecLog[i].result.success
        /\ (parPc = "returned" /\ \E i \in DOMAIN trajectories : trajectories[i].success)
              => (~parReturn.isNull /\ parReturn.success)

\* C15 witness: variant 0 threw, variant 1 succeeded, and the call returned
\* variant 1's successful result
C15_Witness ==
    /\ Distributed /\ parPc = "returned"
    /\ Threw(0)
    /\ 1 \in DOMAIN trajectories /\ trajectories[1].success
    /\ parReturn = parExecLog[1].result
    /\ parReturn.success

\* every variant settled and none of the trajectories is successful
AllFailedTrajectories ==
    /\ Distributed
    /\ DOMAIN trajectories = 0..(ToNumber(numVariants) - 1)
    /\ \A i \in DOMAIN trajectories : ~trajectories[i].success

\* C16: if none of the N trajectories succeeded, parallelScaling returns the
\* raw result of variant 0 (null when the executor of variant 0 threw) and
\* issues no updateMemoryStats call.
C16_AllFailedReturnsFirst ==
    AllFailedTrajectories =>
        /\ parPc \in {"running", "returned"}
        /\ parStatsLog = <<>>
        /\ parPc = "returned" =>
              parReturn = IF Threw(0) THEN NullResult ELSE parExecLog[0].result

\* C16 witness: variant 0 returned a failure object, variant 1 threw, and
\* the call returned the failure object of variant 0
C16_Witness ==
    /\ AllFailedTrajectories /\ parPc = "returned"
    /\ ~Threw(0) /\ ~parExecLog[0].result.isNull
    /\ Threw(1)
    /\ parReturn = parExecLog[0].result
    /\ ~parReturn.isNull /\ ~parReturn.success

\* parallelScaling distributed the memories and has ended
ParFinished == Distributed /\ parPc \in {"returned", "raised"}

\* C17 as stated: whenever a successful winner exists, updateMemoryStats is
\* called exactly once, with exactly the ids handed to the winning variant
\* and succeeded = true.
C17_StatsForEveryWinner ==
    (ParFinished /\ SomeSuccess) =>
        parStatsLog = << <<parExecLog[bestTrajectory.index].memories, TRUE>> >>

\* C17 amended: whenever a successful winner exists that was handed at
\* least one memory, updateMemoryStats is called exactly once, with exactly
\* the ids handed to the winning variant and succeeded = true; for a winner
\* that was handed no memory, and when no variant succeeded, it is not
\* called; it is never called with succeeded = false.
C17_StatsForWinnerWithMemories ==
    Distributed =>
        /\ Len(parStatsLog) <= 1
        /\ \A k \in 1..Len(parStatsLog) : parStatsLog[k][2] = TRUE
        /\ parPc \in {"running", "updating", "returned", "raised"}
        /\ parPc = "running" => parStatsLog = <<>>
        /\ ParFinished =>
              IF SomeSuccess
              THEN LET w == bestTrajectory.index IN
                   /\ w \in DOMAIN trajectories /\ trajectories[w].success
                   /\ IF parExecLog[w].memories # <<>>
                      THEN parStatsLog = << <<parExecLog[w].memories, TRUE>> >>
                      ELSE parStatsLog = <<>>
              ELSE parStatsLog = <<>>

\* C17 witness: two successful variants with different memories; variant 1
\* won and the one updateMemoryStats call names its memory only
C17_Witness ==
    /\ ParFinished /\ parPc = "returned"
    /\ numVariants = 2 /\ Len(parMemories) = 2
    /\ trajectories[0].success /\ trajectories[1].success
    /\ bestTrajectory.index = 1
    /\ parStatsLog = << << <<parMemories[2]>>, TRUE >> >>

\* C18 as stated: once the updateMemoryStats call for the winner has been
\* made, parallelScaling returns the winning trajectory's result, whether
\* the call succeeded or failed.
C18_StatsFailureNotPropagated ==
    (Distributed /\ parStatsLog # <<>>) =>
        /\ parPc = "returned"
        /\ parError = "none"
        /\ parReturn = bestTrajectory.result

\* C19: when embedQuery fails in an enabled parallelScaling the call ends
\* with that error, and no retrieval, no executor call and no
\* updateMemoryStats call has been or will be made.
C19_EmbedFailurePropagated ==
    parError = "embed" =>
        /\ parEnabled
        /\ parPc = "raised"
        /\ parCalls = [embed |-> 1, retrieve |-> 0]
        /\ DOMAIN parExecLog = {}
        /\ parStatsLog = <<>>
        /\ parReturn = NullResult
        /\ ~ENABLED NextPar

\* C19 witness: the embedder failed and the call has ended with the error
C19_Witness ==
    /\ parError = "embed" /\ parPc = "raised"
    /\ parCalls.embed = 1 /\ numVariants >= 1

\* the highest score among the results of the iterations executed
MaxScore(trace) ==
    CHOOSE s \in {ScoreTrajectory(trace[k]) : k \in 1..Len(trace)} :
        \A k \in 1..Len(trace) : ScoreTrajectory(trace[k]) <= s

\* the earliest iteration whose result has the highest score
EarliestBest(trace) ==
    CHOOSE k \in 1..Len(trace) :
        /\ ScoreTrajectory(trace[k]) = MaxScore(trace)
        /\ \A j \in 1..(k - 1) : ScoreTrajectory(trace[j]) < MaxScore(trace)

\* an enabled sequentialScaling returned after at least one iteration
SeqReturnedAfterIterations ==
    seqEnabled /\ seqPc = "returned" /\ seqTrace # <<>>

\* C20 as stated: sequentialScaling returns the result of the iteration
\* with the highest score among the iterations it executed, the earliest
\* one on equal scores.
C20_ReturnsHighestScoring ==
    SeqReturnedAfterIterations =>
        seqReturn = seqTrace[EarliestBest(seqTrace)]

\* C20 amended: when some executed iteration scored above 0,
\* sequentialScaling returns the result of the iteration with the highest
\* score (the earliest one on equal scores), not necessarily the last; when
\* every executed iteration scored 0 it returns null.
C20_ReturnsHighestScoringOrNull ==
    SeqReturnedAfterIterations =>
        IF MaxScore(seqTrace) > 0
        THEN seqReturn = seqTrace[EarliestBest(seqTrace)]
        ELSE seqReturn = NullResult

\* C20 witness: three iterations, the second and third tie on the highest
\* score with different results, and the second one's result is returned
C20_Witness ==
    /\ SeqReturnedAfterIterations /\ Len(seqTrace) = 3
    /\ ScoreTrajectory(seqTrace[1]) < ScoreTrajectory(seqTrace[2])
    /\ ScoreTrajectory(seqTrace[3]) = ScoreTrajectory(seqTrace[2])
    /\ seqTrace[3] # seqTrace[2]
    /\ seqReturn = seqTrace[2]

\* the result of the latest iteration is successful with a score above 0.9
LastIterationHigh ==
    /\ seqEnabled /\ seqTrace # <<>>
    /\ LET r == seqTrace[Len(seqTrace)] IN
       ~r.isNull /\ r.success /\ ScoreTrajectory(r) > 9

\* C21: as soon as an iteration of sequentialScaling yields a successful
\* result with score above 0.9 the call has returned that iteration's
\* result: reflect was not called for that iteration and no retrieval,
\* execute or reflect call follows.
C21_EarlyStop ==
    LastIterationHigh =>
        /\ seqPc = "returned"
        /\ seqReturn = seqTrace[Len(seqTrace)]
        /\ seqCalls.execute = Len(seqTrace)
        /\ seqCalls.retrieve = Len(seqTrace)
        /\ seqCalls.reflect = IF hasReflect THEN Len(seqTrace) - 1 ELSE 0
        /\ ~ENABLED NextSeq

\* C21 witness: with a reflector and three iterations allowed, the second
\* iteration scores above 0.9 and its result is returned after one reflect
C21_Witness ==
    /\ LastIterationHigh /\ hasReflect /\ maxIterations = 3
    /\ Len(seqTrace) = 2
    /\ seqPc = "returned" /\ seqReturn = seqTrace[2]
    /\ seqCalls.reflect = 1 /\ seqCalls.execute = 2

\* the best result so far as the iterations' results determine it: the
\* earliest one with the highest score, null while no score is above 0
BestSoFar(trace) ==
    IF trace # <<>> /\ MaxScore(trace) > 0
    THEN trace[EarliestBest(trace)]
    ELSE NullResult

\* the number of reflect calls that returned shouldRefine = true
RefineCount ==
    Cardinality({j \in 1..Len(seqReflections) : seqReflections[j] = "refine"})

\* the latest reflect call threw or did not ask for refinement
ReflectionEnded ==
    /\ seqReflections # <<>>
    /\ seqReflections[Len(seqReflections)] \in {"threw", "stop"}

\* C22: with a reflector, the iteration after iteration k is started if
\* and only if reflect answered iteration k with shouldRefine = true and
\* k < maxIterations; when reflect throws, returns nothing or returns
\* shouldRefine = false, no further retrieval or execute call is made, the
\* call does not fail, and it returns the best result so far.
C22_ReflectDecidesNextIteration ==
    (seqEnabled /\ hasReflect) =>
        /\ seqCalls.execute <= RefineCount + 1
        /\ seqCalls.retrieve <= RefineCount + 1
        /\ seqCalls.reflect = Len(seqReflections)
        /\ (seqPc = "loop" /\ seqReflections # <<>>) =>
              /\ RefineCount = Len(seqReflections)
              /\ (ENABLED SeqRetrieve) <=> (Len(seqReflections) < maxIterations)
              /\ (ENABLED SeqLoopExit) <=> (Len(seqReflections) >= maxIterations)
        /\ ReflectionEnded =>
              /\ seqPc = "returned" /\ seqError = "none"
              /\ seqCalls.execute = Len(seqReflections)
              /\ seqCalls.retrieve = Len(seqReflections)
              /\ seqReturn = BestSoFar(seqTrace)
              /\ ~ENABLED NextSeq

\* C22 witness: the first reflect asked for refinement and a second
\* iteration ran; the second reflect threw, and the call returned the best
\* result, which is the first iteration's, with iterations to spare
C22_Witness ==
    /\ seqEnabled /\ hasReflect /\ maxIterations = 3
    /\ seqReflections = <<"refine", "threw">>
    /\ seqPc = "returned" /\ seqCalls.execute = 2
    /\ seqReturn = seqTrace[1] /\ seqTrace[2] # seqTrace[1]
    /\ ~seqReturn.isNull

\* the position in the trace of the first successful result, beyond every
\* iteration count when there is none
FirstSuccess(trace) ==
    IF \E k \in 1..Len(trace) : trace[k].success
    THEN CHOOSE k \in 1..Len(trace) :
            /\ trace[k].success
            /\ \A j \in 1..(k - 1) : ~trace[j].success
    ELSE MaxIter + 1

\* C23: without a reflector sequentialScaling stops after the first
\* iteration whose result is successful, every execute call receives the
\* task the caller passed, and a call that returns has invoked execute
\* min(maxIterations, index of the first successful iteration) times.
C23_NoReflectorRetries ==
    (seqEnabled /\ ~hasReflect) =>
        /\ seqCalls.reflect = 0
        /\ \A j \in 1..Len(seqTasks) : seqTasks[j] = InitialTask
        /\ Len(seqTasks) = seqCalls.execute
        /\ seqCalls.execute <= Min(maxIterations, FirstSuccess(seqTrace))
        /\ \A j \in 1..(Len(seqTrace) - 1) :
              ~seqTrace[j].isNull /\ ~seqTrace[j].success
        /\ (seqTrace # <<>> /\ seqTrace[Len(seqTrace)].success) =>
              seqPc = "returned"
        /\ seqPc = "returned" =>
              /\ seqCalls.execute = Min(maxIterations, FirstSuccess(seqTrace))
              /\ Len(seqTrace) = seqCalls.execute

\* C23 witness: no reflector, three iterations allowed; the first result is
\* a failure, the second a success below the early-stop score, and the
\* call returned after two execute calls with the caller's task
C23_Witness ==
    /\ seqEnabled /\ ~hasReflect /\ maxIterations = 3
    /\ seqPc = "returned" /\ seqCalls.execute = 2
    /\ ~seqTrace[1].success /\ seqTrace[2].success
    /\ ~StopsEarly(seqTrace[2])
    /\ seqTasks = <<InitialTask, InitialTask>>

\* C24 as stated: an exception thrown by the executor, or a null result
\* returned by it, in an iteration of sequentialScaling does not leave
\* sequentialScaling.
C24_ExecutorExceptionCaught ==
    (seqEnabled /\ seqCalls.execute >= 1) =>
        /\ seqError \notin {"execute", "nullResult"}
        /\ seqPc = "raised" => seqCalls.execute < seqCalls.retrieve

-----------------------------------------------------------------------------
(* Properties of _scoreTrajectory                                          *)

\* a numeric field is present in the result
Present(x) == x # Absent

\* the score as C25 states it, in tenths
StatedScore(result) ==
    IF result.isNull \/ ~result.success THEN 0
    ELSE Min(10,
             5 + (IF Present(result.steps) /\ result.steps < 10 THEN 2 ELSE 0)
               + (IF Present(result.executionTime) /\ result.executionTime < 5000
                  THEN 1 ELSE 0)
               + (IF Present(result.outputKeys) /\ result.outputKeys > 5
                  THEN 1 ELSE 0)
               + (IF Present(result.htmlLen) /\ result.htmlLen > 1000
                  THEN 1 ELSE 0))

\* C25 as stated: the score of a result is 0 when it is null or not
\* successful, and otherwise min(1.0, 0.5 + 0.2 for steps present and
\* below 10, 0 included, + 0.1 for executionTime present and below 5000,
\* 0 included, + 0.1 for more than 5 output keys + 0.1 for a report longer
\* than 1000); it lies in [0, 1].
C25_ScoreAsStated ==
    scoreOut # Absent =>
        /\ scoreOut = StatedScore(scoreArg)
        /\ scoreOut >= 0 /\ scoreOut <= 10

-----------------------------------------------------------------------------
(* Properties of _cosineSimilarity                                         *)

\* the sum of the squares of the numeric entries of an array
RECURSIVE SquareSum(_, _)
SquareSum(a, i) ==
    IF i > Len(a) THEN 0
    ELSE (IF a[i] = NaN THEN 0 ELSE a[i] * a[i]) + SquareSum(a, i + 1)

\* the input is an array, raw or wrapped, of numbers
IsNumericVector(vec) ==
    /\ vec.kind \in {"array", "wrapped"}
    /\ \A i \in 1..Len(vec.values) : vec.values[i] # NaN

\* an input for which C26 asks for the result 0: absent, not a vector, of
\* zero magnitude, or of another length than the other input
AsksForZero(vec1, vec2) ==
    \/ ~IsNumericVector(vec1) \/ ~IsNumericVector(vec2)
    \/ SquareSum(vec1.values, 1) = 0 \/ SquareSum(vec2.values, 1) = 0
    \/ Len(vec1.values) # Len(vec2.values)

\* the result is a number between -1 and 1
InUnitRange(sim) ==
    sim.dot # NaN /\ sim.dot * sim.dot <= sim.sq1 * sim.sq2

\* two results are the same number
SameSim(a, b) ==
    /\ a.dot = b.dot
    /\ a.dot # NaN => a.dot * a.dot * b.sq1 * b.sq2 = b.dot * b.dot * a.sq1 * a.sq2

\* C26 as stated: _cosineSimilarity returns 0 whenever an input is absent,
\* is not a vector, has zero magnitude, or the lengths differ; for all
\* other inputs the result is a number in [-1, 1]; the result for (u, v)
\* is the result for (v, u).
C26_CosineSafe ==
    cosOut # NoSim =>
        /\ AsksForZero(cosArgs[1], cosArgs[2]) => cosOut = ZeroSim
        /\ InUnitRange(cosOut)
        /\ SameSim(cosOut, CosineSimilarity(cosArgs[2], cosArgs[1]))

-----------------------------------------------------------------------------
(* Properties of the Extractor                                             *)

\* the positions of the candidates whose _storeMemory call persisted them
Persisted ==
    {i \in 1..Len(extOutcomes) : extOutcomes[i] = "stored"}

\* C27 as stated: every element of the list returned by
\* extractFromRejection / extractFromBuildFailure is a candidate that
\* passed validation and was persisted through addMemory.
C27_ReturnsPersistedOnly ==
    extPc = "returned" =>
        /\ extReturn.kind = "array"
        /\ \A i \in 1..Len(extReturn.items) :
              \E j \in Persisted : extMemories.items[j] = extReturn.items[i]
        /\ Len(extReturn.items) <= Cardinality(Persisted)

\* C28 as stated: when the text-generation call fails or its response does
\* not parse to a JSON array, the call returns an empty list, does not
\* raise, and persists nothing.
C28_ExtractionFailureReturnsEmpty ==
    (extMemories.kind \in {"threw", "null", "scalar", "string"}) =>
        /\ extPc \in {"store", "returned"}
        /\ extAdds = <<>>
        /\ extPc = "returned" => extReturn = EmptyList

\* C29 as stated: a failure while one candidate is processed does not stop
\* the call: when the call ends every candidate of the response has been
\* processed, and addMemory was invoked only for candidates that passed
\* the shape validation and the embedding validation.
C29_CandidateFailureIsolated ==
    (extPc = "returned" /\ extMemories.kind = "array") =>
        /\ Len(extOutcomes) = Len(extMemories.items)
        /\ \A k \in 1..Len(extAdds) :
              /\ extMemories.items[extAdds[k]].shapeOk
              /\ extOutcomes[extAdds[k]] \in {"addFailed", "stored"}

-----------------------------------------------------------------------------
(* Properties of retrieveForCodeGeneration                                 *)

\* the category is on the build-related whitelist
OnWhitelist(m) ==
    m.category \in {"code_rejection", "build_failure", "generation_pattern",
                    "fix_strategy", "error_pattern"}

\* the sub-list of the whitelisted memories, in the order of the list
RECURSIVE Whitelisted(_)
Whitelisted(mems) ==
    IF mems = <<>> THEN <<>>
    ELSE (IF OnWhitelist(Head(mems)) THEN <<Head(mems)>> ELSE <<>>)
         \o Whitelisted(Tail(mems))

\* C30: retrieveForCodeGeneration returns at most topK memories, all from
\* the retrieval result R: the whitelisted sub-list of R when it has at
\* least two elements, R itself otherwise; when the embedding or the
\* retrieval fails (or yields no list) it returns the empty list and does
\* not raise.
C30_RetrieveForCodeGeneration ==
    /\ rcgPc \in {"start", "retrieve", "returned"}
    /\ rcgPc = "returned" =>
          /\ Len(rcgReturn) <= rcgTopK
          /\ IF rcgMemories.kind = "list"
             THEN LET R == rcgMemories.items IN
                  /\ rcgError = "none"
                  /\ \A i \in 1..Len(rcgReturn) :
                        \E j \in 1..Len(R) : R[j] = rcgReturn[i]
                  /\ rcgReturn = IF Len(Whitelisted(R)) >= 2
                                 THEN Whitelisted(R) ELSE R
             ELSE rcgError # "none" /\ rcgReturn = <<>>

\* C30 witness: of three retrieved memories the first and the third are
\* build-related, and exactly those two are returned
C30_Witness ==
    /\ rcgPc = "returned" /\ rcgMemories.kind = "list"
    /\ Len(rcgMemories.items) = 3
    /\ rcgMemories.items[2].category = "general_strategy"
    /\ rcgReturn = <<rcgMemories.items[1], rcgMemories.items[3]>>

-----------------------------------------------------------------------------
(* Properties of the merge pass over clusters and under concurrency        *)

\* the log entry at position k is a merge write of one of the kinds in ops
MergeWrite(k, ops) == consLog[k].pass = "merge" /\ consLog[k].op \in ops

\* C32: within one merge pass, once a record has been chosen as the loser of
\* a pair and deleted, no later pair of the pass selects it again: no
\* updateMemory and no deleteMemory is issued for its id afterwards.
C32_LoserLeavesThePass ==
    \A k, l \in 1..Len(consLog) :
        (/\ k < l
         /\ MergeWrite(k, {"delete"}) /\ consLog[k].ok
         /\ MergeWrite(l, {"update", "delete"}))
        => consLog[l].id # consLog[k].id

\* the pair the merge loop is at, as <<keep, remove>>
CurrentPair == DecideKeep(worklist[cursor].memory1, worklist[cursor].memory2)

\* the step is an updateMemory of the merge loop that the repository accepted
MergeWritesWinner == consPc = "mergeLoop" /\ consPc' = "mergeDelete"

\* the step is a deleteMemory of the merge loop followed by mergedCount++
MergeCountsPair == consPc = "mergeDelete" /\ mergedCount' = mergedCount + 1

\* C33: for each merged pair the values written to the winner for
\* timesRetrieved, timesUsedInSuccess and timesUsedInFailure are the sums of
\* the values the two records hold in the store immediately before that merge
\* (counts absorbed from earlier merges of the pass included), successRate is
\* recomputed from the summed counts (null when both sums are 0), and the
\* loser is deleted.
C33_MergeSumsStoredCounts ==
    [][/\ (/\ MergeWritesWinner
           /\ store[CurrentPair[1].id].status = "active"
           /\ store[CurrentPair[2].id].status = "active")
          => LET keep == store[CurrentPair[1].id]
                 remove == store[CurrentPair[2].id]
                 written == store'[CurrentPair[1].id]
             IN /\ written.timesRetrieved
                      = keep.timesRetrieved + remove.timesRetrieved
                /\ written.timesUsedInSuccess
                      = keep.timesUsedInSuccess + remove.timesUsedInSuccess
                /\ written.timesUsedInFailure
                      = keep.timesUsedInFailure + remove.timesUsedInFailure
                /\ written.successRate
                      = RateOf(keep.timesUsedInSuccess + remove.timesUsedInSuccess,
                               keep.timesUsedInFailure + remove.timesUsedInFailure)
       /\ MergeCountsPair => store'[CurrentPair[2].id].status = "absent"]_vars

\* a > b for two similarities with non-negative dot products
SimGreater(a, b) ==
    a.dot * a.dot * b.sq1 * b.sq2 > b.dot * b.dot * a.sq1 * a.sq2

\* the merge loop has issued a write for the k-th candidate pair
PairHandled(k) == k < cursor \/ (k = cursor /\ consPc = "mergeDelete")

\* C34: the merge pass processes its candidate pairs in order of
\* non-increasing similarity: no pair has its writes issued while a pair of
\* strictly higher similarity is still waiting for its own.
C34_StrongestMatchesFirst ==
    consPc \in {"mergeLoop", "mergeDelete"} =>
        \A k, l \in 1..Len(worklist) :
            (PairHandled(k) /\ ~PairHandled(l)) =>
                ~SimGreater(worklist[l].similarity, worklist[k].similarity)

\* the embedding the merge scan saw for the record id
ScannedEmbedding(id) ==
    LET k == CHOOSE k \in 1..Len(memories) : memories[k].id = id
    IN memories[k].embedding

\* positions after p at which a deleteMemory of the merge loop removed id
LaterDeletes(id, p) ==
    { q \in (p + 1)..Len(consLog) :
        MergeWrite(q, {"delete"}) /\ consLog[q].ok /\ consLog[q].id = id }

\* the record standing in place of id after log position p: id itself, or,
\* if id was deleted as the loser of a later pair, what stands for that
\* pair's winner (the updateMemory entry right before the delete)
RECURSIVE SurvivorOf(_, _)
SurvivorOf(id, p) ==
    IF LaterDeletes(id, p) = {} THEN id
    ELSE LET q == CHOOSE q \in LaterDeletes(id, p) :
                     \A x \in LaterDeletes(id, p) : q <= x
         IN SurvivorOf(consLog[q - 1].id, q)

\* C35: every record deleted by the merge pass has cosine similarity >= 0.95
\* with the record that survives the pass in its place (the final survivor
\* of the chain of merges it took part in), also when similarity is not
\* transitive.
C35_SurvivorRepresentsDeleted ==
    LoopFinished("mergeLoop") =>
        \A p \in 1..Len(consLog) :
            (MergeWrite(p, {"delete"}) /\ consLog[p].ok) =>
                LET s == SurvivorOf(consLog[p - 1].id, p) IN
                store[s].status = "active" =>
                    SimAtLeast(CosineSimilarity(ScannedEmbedding(consLog[p].id),
                                                store[s].embedding),
                               SimilarityNum, SimilarityDen)

-----------------------------------------------------------------------------
(* parallelScaling and the order in which its trajectories complete        *)

\* the wrapper of variant i as the outcome of its executor call alone
\* determines it
WrapperOf(i) ==
    IF parExecLog[i].threw \/ parExecLog[i].result.isNull
    THEN Caught(i, memoryChunks[i])
    ELSE Settled(i, parExecLog[i].result, memoryChunks[i])

\* the winner under the total order (score, variantIndex) over the
\* successful variants, variant 0 when none succeeded
WinnerByVariant ==
    LET n == ToNumber(numVariants)
        ok == { i \in 0..(n - 1) : WrapperOf(i).success }
    IN IF ok = {} THEN 0
       ELSE CHOOSE i \in ok :
              \A j \in ok : \/ WrapperOf(j).score < WrapperOf(i).score
                            \/ /\ WrapperOf(j).score = WrapperOf(i).score
                               /\ i <= j

\* C36: the value returned by parallelScaling and the ids passed to
\* updateStats do not depend on the order in which the N concurrently
\* launched executor calls complete: for fixed per-variant results every
\* interleaving yields the same winner, and selection takes place only after
\* all N trajectories have completed.
C36_CompletionOrderIrrelevant ==
    /\ Len(parStatsLog) > 0 => Selected
    /\ Selected =>
          /\ DOMAIN trajectories = 0..(ToNumber(numVariants) - 1)
          /\ bestTrajectory = WrapperOf(WinnerByVariant)
          /\ parPc = "returned" =>
                parReturn = WrapperOf(WinnerByVariant).result
          /\ \A k \in 1..Len(parStatsLog) :
                parStatsLog[k] = <<WrapperOf(WinnerByVariant).memoriesUsed, TRUE>>

\* C36 witness: the call returned the result of the winner and updated its
\* memories although the first to complete was a variant of higher index
\* that ties with it on the score, with a different result
C36_Witness ==
    /\ parPc = "returned" /\ Selected
    /\ Len(parStatsLog) = 1
    /\ \E j \in DOMAIN trajectories :
          /\ j > bestTrajectory.index
          /\ trajectories[j].success
          /\ trajectories[j].score = bestTrajectory.score
          /\ trajectories[j].result # bestTrajectory.result
          /\ trajectories[j].memoriesUsed # bestTrajectory.memoriesUsed
          /\ parFirst = j
    /\ parReturn = bestTrajectory.result

\* the three usage counts of a record
CountFields == {"timesRetrieved", "timesUsedInSuccess", "timesUsedInFailure"}

\* the sum of a count over the records the pass scanned, from position k on
RECURSIVE ScanTotal(_, _)
ScanTotal(f, k) ==
    IF k > Len(memories) THEN 0 ELSE memories[k][f] + ScanTotal(f, k + 1)

\* the sum of a count over the documents the store holds, from id on
RECURSIVE StoreTotal(_, _)
StoreTotal(f, id) ==
    IF id > MaxRecords THEN 0
    ELSE (IF store[id].status = "absent" THEN 0 ELSE store[id][f])
         + StoreTotal(f, id + 1)

\* C37: the merge pass conserves the store-wide totals: the sums of
\* timesRetrieved, of timesUsedInSuccess and of timesUsedInFailure over all
\* records are the same after the pass as before it, for every similarity
\* structure; no count of a deleted record is lost or folded in twice.
C37_MergeConservesTotals ==
    LoopFinished("mergeLoop") =>
        \A f \in CountFields : StoreTotal(f, 1) = ScanTotal(f, 1)

\* the documents the store holds as active
ActiveIds == { id \in Ids : store[id].status = "active" }

\* every repository write of the run was accepted
NoWriteFailed == \A k \in 1..Len(consLog) : consLog[k].ok

\* C38: when consolidate() returns success = true with no write failure and
\* no concurrent writer, its counters account for the store exactly: the
\* number of active records after the run equals
\* totalMemories - pruned - merged - archived.
C38_CountersAccountForStore ==
    (consPc = "done" /\ stats.success = "true" /\ NoWriteFailed) =>
        Cardinality(ActiveIds)
            = stats.totalMemories - stats.pruned - stats.merged - stats.archived

\* the merge loop has not written the winner of the current pair before, so
\* whatever the store holds for it beyond the scan is another task's change
WinnerUntouchedByPass ==
    \A k \in 1..Len(consLog) :
        MergeWrite(k, {"update"}) => consLog[k].id # CurrentPair[1].id

\* C39: a stat change applied to a record by another task (the retrieval
\* increment or updateStats of a concurrent parallelScaling call) after the
\* merge pass has scanned the record and before the merge pass writes it as
\* a winner is not lost: the counts stored after the merge write still
\* include that change.
C39_ConcurrentChangeKept ==
    [][(MergeWritesWinner /\ WinnerUntouchedByPass) =>
          LET keep == CurrentPair[1]
              remove == CurrentPair[2]
          IN \A f \in CountFields :
                store'[keep.id][f] - MergePatch(keep, remove)[f]
                    >= store[keep.id][f] - keep[f]]_vars

-----------------------------------------------------------------------------
(* What sequentialScaling hands back                                       *)

\* an enabled sequentialScaling returned
SeqReturned == seqEnabled /\ seqPc = "returned"

\* no executed iteration scored above 0
NoneScored == \A k \in 1..Len(seqTrace) : ScoreTrajectory(seqTrace[k]) = 0

\* C40: sequentialScaling (feature enabled) never returns a failed executor
\* result: its return value is either null or a result with success true,
\* and it is null exactly when no iteration scored above 0 (every executed
\* result failed, or maxIterations <= 0 so that execute was never called).
C40_NeverReturnsFailedResult ==
    SeqReturned =>
        /\ seqReturn = NullResult \/ (~seqReturn.isNull /\ seqReturn.success)
        /\ seqReturn = NullResult <=> NoneScored
        /\ seqTrace = <<>> <=> maxIterations <= 0
        /\ \A k \in 1..Len(seqTrace) :
              ScoreTrajectory(seqTrace[k]) = 0 <=> ~seqTrace[k].success

\* C40 witness: the last executed iteration failed and the call returned
\* the successful result of an earlier one
C40_Witness ==
    /\ SeqReturned /\ Len(seqTrace) >= 2
    /\ ~seqTrace[Len(seqTrace)].success
    /\ ~seqReturn.isNull /\ seqReturn.success
    /\ seqReturn = seqTrace[1]

-----------------------------------------------------------------------------
(* The log records of consolidate(), parallelScaling and sequentialScaling *)

\* texts the message of a rejection (of the repository, the executor or the
\* reflector) may carry; a database driver may put a credential into it
ErrorTexts == {"Database error", "Database error: password=secret123"}

\* one logger call: level, message, the id (or index) it carries and the
\* error text it carries ("" when the record has no error field)
LogRecord(level, message, id, error) ==
    [level |-> level, message |-> message, id |-> id, error |-> error]

\* the logger call that follows the repository call w of consolidate(),
\* when the rejections carry the message text
ConsLogged(w, text) ==
    IF w.op = "scan"
    THEN <<LogRecord("error", "Memory consolidation failed", w.id, text)>>
    ELSE IF w.pass = "prune"
    THEN IF w.ok THEN <<LogRecord("debug", "Pruned low-quality memory", w.id, "")>>
         ELSE <<LogRecord("warn", "Failed to prune memory", w.id, text)>>
    ELSE IF w.pass = "merge"
    THEN IF ~w.ok
         THEN <<LogRecord("warn", "Failed to merge duplicate memories", w.id, text)>>
         ELSE IF w.op = "delete"
         THEN <<LogRecord("debug", "Merged duplicate memory", w.id, "")>>
         ELSE <<>>
    ELSE IF w.ok THEN <<LogRecord("debug", "Archived stale memory", w.id, "")>>
         ELSE <<LogRecord("warn", "Failed to archive memory", w.id, text)>>

\* the records consolidate() has emitted for its repository calls from
\* position k of the log on
RECURSIVE ConsRecords(_, _)
ConsRecords(k, text) ==
    IF k > Len(consLog) THEN <<>>
    ELSE ConsLogged(consLog[k], text) \o ConsRecords(k + 1, text)

\* the warn records of the catch block of the trajectories of
\* parallelScaling, by variant index
ParRecords(text) ==
    [i \in DOMAIN parExecLog \ {SingleCall} |->
        IF parExecLog[i].threw
        THEN <<LogRecord("warn", "Parallel trajectory failed", i, text)>>
        ELSE <<>>]

\* the records sequentialScaling has emitted after its reflect calls
SeqRecords(text) ==
    [k \in 1..Len(seqReflections) |->
        IF seqReflections[k] = "threw"
        THEN <<LogRecord("warn", "Reflection function failed, stopping refinement",
                         k, text)>>
        ELSE IF seqReflections[k] = "stop"
        THEN <<LogRecord("info",
                         "Sequential scaling reflection suggests no further refinement",
                         k, "")>>
        ELSE <<>>]

\* everything logged so far in a run whose rejections carry the message text
Logged(text) == <<ConsRecords(1, text), ParRecords(text), SeqRecords(text)>>

\* C31: no log record emitted by parallelScaling, sequentialScaling or
\* consolidate(), on success or on failure paths, carries raw memory
\* content, task parameters or secret-bearing error text: two runs that
\* differ only in those sensitive values emit identical log records.
C31_LogsElideSensitiveValues ==
    \A a, b \in ErrorTexts : Logged(a) = Logged(b)

=============================================================================
